---- MODULE Spec2Model ----
(***************************************************************************)
(* Verification model of the AI-VibeCodeEval evaluation server.            *)
(*                                                                         *)
(* Several parts of the program are modelled, each with its own            *)
(* specification over the shared variable tuple:                           *)
(*   SpecStore  the durable message store (PostgreSQL, READ COMMITTED),    *)
(*              the cached session state (Redis) and the request handlers  *)
(*              save_chat_message, save_messages_batch and send_message;   *)
(*   SpecQueue  the judge queue adapters and the JudgeWorker loop;         *)
(*   SpecRate   the sliding-window RateLimitingMiddleware;                 *)
(*   SpecChain  the Retry and Logging middleware around the Writer chain;  *)
(*   SpecSess   one session through EvalService.process_message, the       *)
(*              background turn evaluation and eval_turn_submit_guard;     *)
(*   SpecWs     the receive loop and the delta stream of websocket_chat;   *)
(*   SpecGraph  one invocation of the main graph and its routers;          *)
(*   SpecRouter writer_router on every state.                              *)
(***************************************************************************)
EXTENDS Integers, Sequences, FiniteSets, TLC

(***************************************************************************)
(* Bounds of the model.                                                    *)
(***************************************************************************)
\* number of requests that can be in flight at once (one DB connection each)
NClients == 2
\* number of requests started in one behaviour
MaxOps == 2
\* largest turn number a caller supplies explicitly
MaxTurn == 2
\* longest list handed to save_messages_batch
MaxBatch == 2

Clients == 1..NClients

\* the turn=None parameter of save_message / add_message
None == 0

Roles == {"USER", "AI"}

VARIABLES
    dbSessions,     \* committed rows of prompt_sessions
    dbMessages,     \* committed rows of prompt_messages
    nextSessionId,  \* autoincrement sequence of prompt_sessions.id
    nextMsgId,      \* autoincrement sequence of prompt_messages.id
    nextReq,        \* number of requests started so far
    cl,             \* per request: position, parameters, open transaction
    cache,          \* cached session state, per session: the messages in it
    bgTasks         \* background per-turn evaluations not yet finished

varsStore == <<dbSessions, dbMessages, nextSessionId, nextMsgId, nextReq,
               cl, cache, bgTasks>>

SessionIds == 1..(MaxOps + 1)

(***************************************************************************)
(* The durable store.  A statement of a transaction sees every committed   *)
(* row and the rows its own transaction has written (READ COMMITTED, the   *)
(* PostgreSQL default: POSTGRES_URL asks for no other isolation level).    *)
(***************************************************************************)
VisibleSessions(c) == dbSessions \cup cl[c].txS

VisibleMessages(c) == dbMessages \cup cl[c].txM

\* SELECT ... WHERE exam_id = .. AND participant_id = .. AND ended_at IS NULL
OpenSessions(c) == {s \in VisibleSessions(c) : ~s.ended}

SetMax(S) == CHOOSE x \in S : \A y \in S : y <= x

\* the subquery without its WHERE session_id = :sid: the maximum over every
\* session's messages
NextTurnAllSessions(c, sid) ==
    LET ts == {m.turn : m \in VisibleMessages(c)}
    IN  IF ts = {} THEN 1 ELSE SetMax(ts) + 1

\* (SELECT COALESCE(MAX(turn), 0) + 1 FROM prompt_messages WHERE session_id = :sid)
NextTurn(c, sid) ==
    LET ts == {m.turn : m \in {x \in VisibleMessages(c) : x.sid = sid}}
    IN  IF ts = {} THEN 1 ELSE SetMax(ts) + 1

\* SELECT ... WHERE session_id = .. AND turn = .. AND role = ..
ExistingMessages(c) ==
    {m \in VisibleMessages(c) :
        m.sid = cl[c].sess /\ m.turn = cl[c].turn /\ m.role = cl[c].role}

IdleClient ==
    [pc |-> "idle", caller |-> "none", turn |-> None, role |-> "USER",
     req |-> 0, sess |-> 0, txS |-> {}, txM |-> {}, snap |-> {},
     batch |-> <<>>, ai |-> FALSE, mid |-> 0,
     resp |-> [req |-> 0, ok |-> FALSE, ai |-> FALSE, msg |-> 0, dup |-> FALSE]]

\* the store before the first request: empty, or one open session holding
\* the USER message of an earlier request at turn 1 (written by
\* save_message(turn=None), so it is committed and in the cached state)
EarlierMessage ==
    [id |-> 1, sid |-> 1, turn |-> 1, role |-> "USER", req |-> 0, auto |-> TRUE]

StoreWith(earlier) ==
    /\ dbSessions = IF earlier THEN {[id |-> 1, ended |-> FALSE]} ELSE {}
    /\ dbMessages = IF earlier THEN {EarlierMessage} ELSE {}
    /\ nextSessionId = IF earlier THEN 2 ELSE 1
    /\ nextMsgId = IF earlier THEN 2 ELSE 1
    /\ cache = [s \in SessionIds |->
                  IF earlier /\ s = 1 THEN {[role |-> "USER", req |-> 0]} ELSE {}]
    /\ nextReq = 0
    /\ cl = [c \in Clients |-> IdleClient]
    /\ bgTasks = {}

EmptyStore == StoreWith(FALSE)

InitStore == \E earlier \in BOOLEAN : StoreWith(earlier)

\* the request of client c ends: its connection is closed, whatever its
\* transaction still holds is discarded, and the response is kept for reading
Respond(r, ok, ai) ==
    [IdleClient EXCEPT !.resp = [req |-> r.req, ok |-> ok, ai |-> ai,
                                 msg |-> 0, dup |-> FALSE]]

\* save_chat_message hands on what save_message returned: success and the
\* message_id, of the row just inserted or (dup) of the row found to exist
RespondSaved(r, id, dup) ==
    [IdleClient EXCEPT !.resp = [req |-> r.req, ok |-> TRUE, ai |-> FALSE,
                                 msg |-> id, dup |-> dup]]

\* an exception leaves get_or_create_session, add_message or a query:
\* save_message and save_messages_batch roll back and re-raise
\* (message_storage_service.py 183-190, 310-313); send_message swallows a
\* failed AI save (chat.py 224-230) and answers any other exception with an
\* error response (chat.py 299-330); save_chat_message answers success=False
OnRaise(r) ==
    IF r.caller = "chat_ai"
    THEN [r EXCEPT !.pc = "ch_return", !.txS = {}, !.txM = {}]
    ELSE Respond(r, FALSE, FALSE)

\* where get_or_create_session returns to
AfterGetOrCreate(r) ==
    CASE r.caller = "route" -> [r EXCEPT !.caller = "chat_user", !.pc = "gocs_select"]
      [] r.caller = "batch" -> [r EXCEPT !.pc = "b_insert"]
      [] OTHER -> [r EXCEPT !.pc = IF r.turn = None THEN "sm_insert" ELSE "sm_check"]

\* where save_message returns to
AfterSaveMessage(r) ==
    CASE r.caller = "chat_user" -> [r EXCEPT !.pc = "ch_proc_load"]
      [] r.caller = "chat_ai" -> [r EXCEPT !.pc = "ch_return"]
      [] OTHER -> RespondSaved(r, r.mid, FALSE)


(***************************************************************************)
(* The variables of the other two parts; declared here so that the store   *)
(* actions can leave them alone.                                           *)
(***************************************************************************)
VARIABLES
    adapter,        \* which QueueAdapter create_queue_adapter() built
    queue,          \* MemoryQueueAdapter.queue / the list judge_queue:pending
    status,         \* MemoryQueueAdapter.status / the keys judge_status:<id>
    results,        \* MemoryQueueAdapter.results / the keys judge_result:<id>
    nextTask,       \* number of tasks created so far
    prod,           \* per producer: position inside enqueue
    worker,         \* the JudgeWorker: position, local variable task, result
    statusLog,      \* per task: the status values get_status has shown, in order
    taken,          \* the tasks dequeue has removed from the queue
    faults          \* number of failed Redis commands so far

varsQueue == <<adapter, queue, status, results, nextTask, prod, worker,
               statusLog, taken, faults>>

VARIABLES
    now,            \* time.time(), in ticks
    callHistory,    \* RateLimitingMiddleware._call_history, per key
    callers,        \* per caller: position inside rate_limited_chain
    invocations     \* start times of chain.ainvoke, per key

varsRate == <<now, callHistory, callers, invocations>>

VARIABLES
    rcfg,           \* the RetryMiddleware: max_retries, retry_exceptions, retry_condition
    rst,            \* retry_chain: position, attempt, calls of the chain, last_exception
    baseOut,        \* what the wrapped LLM chain did in the latest attempt
    logOut,         \* what logged_chain handed on for that attempt
    wst             \* writer_llm: position and the result it returned

varsChain == <<rcfg, rst, baseOut, logOut, wst>>

VARIABLES
    graphState,     \* the graph state of the session in Redis (state_repo)
    preq,           \* process_message in flight: position and its state dict
    evalTasks,      \* background evaluations started, each with its main_state
    guard,          \* eval_turn_submit_guard: turns_to_evaluate and results
    blocked,        \* the turns whose message the guardrail blocked
    evaluated       \* every turn evaluation made: turn, path and score

varsSess == <<graphState, preq, evalTasks, guard, blocked, evaluated>>

VARIABLES
    wsIn,           \* frames of the client that reached the server, unread
    wsOut,          \* frames the server has sent, in order
    ws,             \* websocket_chat: position, turn_id and chunks to come
    active_streams, \* turn_id -> is_cancelled
    wsClient,       \* frames the client has sent so far
    cancelledMid    \* the turns the client cancelled while they streamed

varsWs == <<wsIn, wsOut, ws, active_streams, wsClient, cancelledMid>>

VARIABLES
    mnode,          \* the node of the main graph to run next, or how the run ended
    mstate,         \* the routing fields of MainGraphState
    msteps,         \* node executions of this run
    routed,         \* the latest answer of a conditional router
    submitReq       \* the run was started by submit_code

varsGraph == <<mnode, mstate, msteps, routed, submitReq>>

VARIABLES
    evnode,         \* the evaluation node to run next
    evstate,        \* the score fields of MainGraphState
    judge           \* eval_code_correctness: polls made, path taken, keys of its result

varsEval == <<evnode, evstate, judge>>

VARIABLES
    consumers,      \* callers of dequeue other than one worker loop: position, task held
    dequeued        \* the tasks popped off the queue, in the order of the pops

varsFifo == <<consumers, dequeued>>

vars == <<varsStore, varsQueue, varsRate, varsChain, varsSess, varsWs, varsGraph,
          varsEval, varsFifo>>

\* what the actions of one part leave alone
notStore == <<varsQueue, varsRate, varsChain, varsSess, varsWs, varsGraph, varsEval, varsFifo>>
notQueue == <<varsStore, varsRate, varsChain, varsSess, varsWs, varsGraph, varsEval, varsFifo>>
notRate == <<varsStore, varsQueue, varsChain, varsSess, varsWs, varsGraph, varsEval, varsFifo>>
notChain == <<varsStore, varsQueue, varsRate, varsSess, varsWs, varsGraph, varsEval, varsFifo>>
notSess == <<varsStore, varsQueue, varsRate, varsChain, varsWs, varsGraph, varsEval, varsFifo>>
notWs == <<varsStore, varsQueue, varsRate, varsChain, varsSess, varsGraph, varsEval, varsFifo>>
notGraph == <<varsStore, varsQueue, varsRate, varsChain, varsSess, varsWs, varsEval, varsFifo>>
notEval == <<varsStore, varsQueue, varsRate, varsChain, varsSess, varsWs, varsGraph, varsFifo>>

(***************************************************************************)
(* Requests.                                                               *)
(***************************************************************************)
Begin(c, r) ==
    /\ cl[c].pc = "idle"
    /\ nextReq < MaxOps
    /\ nextReq' = nextReq + 1
    /\ cl' = [cl EXCEPT ![c] = [r EXCEPT !.req = nextReq + 1]]
    /\ UNCHANGED <<dbSessions, dbMessages, nextSessionId, nextMsgId, cache, bgTasks>>
    /\ UNCHANGED notStore

\* POST /save-message: save_chat_message -> save_message(turn, role)
StartSaveMessage(c) ==
    \E t \in None..MaxTurn, ro \in Roles :
        Begin(c, [IdleClient EXCEPT !.pc = "gocs_select", !.caller = "api",
                                    !.turn = t, !.role = ro])

\* save_messages_batch(messages): every message carries its turn
StartBatch(c) ==
    \E n \in 1..MaxBatch :
        \E b \in [1..n -> [turn : 1..MaxTurn, role : Roles]] :
            Begin(c, [IdleClient EXCEPT !.pc = "gocs_select", !.caller = "batch",
                                        !.batch = b])

\* POST /message: send_message starts with get_or_create_session
StartChat(c) ==
    Begin(c, [IdleClient EXCEPT !.pc = "gocs_select", !.caller = "route"])

(***************************************************************************)
(* SessionRepository.get_or_create_session                                 *)
(***************************************************************************)
\* the SELECT of the open session; scalar_one_or_none() raises
\* MultipleResultsFound on more than one row
GetOrCreateSelect(c) ==
    /\ cl[c].pc = "gocs_select"
    /\ LET open == OpenSessions(c)
           r == cl[c]
       IN  cl' = [cl EXCEPT ![c] =
                   IF Cardinality(open) > 1 THEN OnRaise(r)
                   ELSE IF open = {} THEN [r EXCEPT !.pc = "gocs_insert"]
                   ELSE AfterGetOrCreate(
                            [r EXCEPT !.sess = (CHOOSE s \in open : TRUE).id])]
    /\ UNCHANGED <<dbSessions, dbMessages, nextSessionId, nextMsgId, nextReq,
                   cache, bgTasks>>
    /\ UNCHANGED notStore

\* db.add(new_session); flush(); refresh(): the INSERT, not yet committed
GetOrCreateInsert(c) ==
    /\ cl[c].pc = "gocs_insert"
    /\ nextSessionId' = nextSessionId + 1
    /\ cl' = [cl EXCEPT ![c] =
                AfterGetOrCreate(
                    [cl[c] EXCEPT !.sess = nextSessionId,
                                  !.txS = @ \cup {[id |-> nextSessionId,
                                                   ended |-> FALSE]}])]
    /\ UNCHANGED <<dbSessions, dbMessages, nextMsgId, nextReq, cache, bgTasks>>
    /\ UNCHANGED notStore

(***************************************************************************)
(* MessageStorageService.save_message                                      *)
(***************************************************************************)
\* step 3, the duplicate check of an explicit (session, turn, role)
DuplicateCheck(c) ==
    /\ cl[c].pc = "sm_check"
    /\ LET found == ExistingMessages(c)
           r == cl[c]
       IN  cl' = [cl EXCEPT ![c] =
                   IF Cardinality(found) > 1 THEN OnRaise(r)
                   ELSE IF found = {} THEN [r EXCEPT !.pc = "sm_insert"]
                   ELSE RespondSaved(r, (CHOOSE m \in found : TRUE).id, TRUE)]
    /\ UNCHANGED <<dbSessions, dbMessages, nextSessionId, nextMsgId, nextReq,
                   cache, bgTasks>>
    /\ UNCHANGED notStore

\* the row SessionRepository.add_message inserts for request r
NewMessage(c, t) ==
    [id |-> nextMsgId, sid |-> cl[c].sess,
     turn |-> IF t = None THEN NextTurn(c, cl[c].sess) ELSE t,
     role |-> cl[c].role, req |-> cl[c].req, auto |-> (t = None)]

\* step 4, SessionRepository.add_message: the INSERT, or a database error
AddMessage(c) ==
    /\ cl[c].pc = "sm_insert"
    /\ \E ok \in BOOLEAN :
        IF ok
        THEN /\ nextMsgId' = nextMsgId + 1
             /\ cl' = [cl EXCEPT ![c] =
                         [cl[c] EXCEPT !.pc = "sm_commit", !.mid = nextMsgId,
                                       !.txM = @ \cup {NewMessage(c, cl[c].turn)}]]
        ELSE /\ cl' = [cl EXCEPT ![c] = OnRaise(cl[c])]
             /\ UNCHANGED nextMsgId
    /\ UNCHANGED <<dbSessions, dbMessages, nextSessionId, nextReq, cache, bgTasks>>
    /\ UNCHANGED notStore

\* await self.db.commit()
Commit(c) ==
    /\ cl[c].pc = "sm_commit"
    /\ dbSessions' = dbSessions \cup cl[c].txS
    /\ dbMessages' = dbMessages \cup cl[c].txM
    /\ cl' = [cl EXCEPT ![c] =
                [cl[c] EXCEPT !.pc = "sm_ckpt_load", !.txS = {}, !.txM = {}]]
    /\ UNCHANGED <<nextSessionId, nextMsgId, nextReq, cache, bgTasks>>
    /\ UNCHANGED notStore

\* _update_redis_checkpoint: state_repo.get_state; a cache error is logged
\* and save_message still returns success
CheckpointLoad(c) ==
    /\ cl[c].pc = "sm_ckpt_load"
    /\ \E ok \in BOOLEAN :
        cl' = [cl EXCEPT ![c] =
                 IF ok THEN [cl[c] EXCEPT !.pc = "sm_ckpt_save",
                                          !.snap = cache[cl[c].sess]]
                 ELSE AfterSaveMessage(cl[c])]
    /\ UNCHANGED <<dbSessions, dbMessages, nextSessionId, nextMsgId, nextReq,
                   cache, bgTasks>>
    /\ UNCHANGED notStore

\* _update_redis_checkpoint: state["messages"].append(..); save_state
CheckpointSave(c) ==
    /\ cl[c].pc = "sm_ckpt_save"
    /\ cache' = [cache EXCEPT ![cl[c].sess] =
                    cl[c].snap \cup {[role |-> cl[c].role, req |-> cl[c].req]}]
    /\ cl' = [cl EXCEPT ![c] = AfterSaveMessage([cl[c] EXCEPT !.snap = {}])]
    /\ UNCHANGED <<dbSessions, dbMessages, nextSessionId, nextMsgId, nextReq, bgTasks>>
    /\ UNCHANGED notStore


(***************************************************************************)
(* MessageStorageService.save_messages_batch                               *)
(***************************************************************************)
\* one round of the loop: add_message(turn=msg.get("turn", 1), ...)
BatchInsert(c) ==
    /\ cl[c].pc = "b_insert"
    /\ \E ok \in BOOLEAN :
        IF ok
        THEN LET m == Head(cl[c].batch)
                 r == [cl[c] EXCEPT !.role = m.role]
             IN  /\ nextMsgId' = nextMsgId + 1
                 /\ cl' = [cl EXCEPT ![c] =
                             [r EXCEPT !.batch = Tail(@),
                                       !.pc = IF Tail(cl[c].batch) = <<>>
                                              THEN "b_commit" ELSE "b_insert",
                                       !.txM = @ \cup
                                           {[NewMessage(c, m.turn) EXCEPT
                                                !.role = m.role]}]]
        ELSE /\ cl' = [cl EXCEPT ![c] = OnRaise(cl[c])]
             /\ UNCHANGED nextMsgId
    /\ UNCHANGED <<dbSessions, dbMessages, nextSessionId, nextReq, cache, bgTasks>>
    /\ UNCHANGED notStore

\* the single commit after the loop; the batch path does not touch the cache
BatchCommit(c) ==
    /\ cl[c].pc = "b_commit"
    /\ dbSessions' = dbSessions \cup cl[c].txS
    /\ dbMessages' = dbMessages \cup cl[c].txM
    /\ cl' = [cl EXCEPT ![c] = Respond(cl[c], TRUE, FALSE)]
    /\ UNCHANGED <<nextSessionId, nextMsgId, nextReq, cache, bgTasks>>
    /\ UNCHANGED notStore

(***************************************************************************)
(* send_message and EvalService.process_message                            *)
(***************************************************************************)
\* process_message: existing_state = await self.state_repo.get_state(..)
ProcessLoad(c) ==
    /\ cl[c].pc = "ch_proc_load"
    /\ cl' = [cl EXCEPT ![c] = [cl[c] EXCEPT !.pc = "ch_graph",
                                             !.snap = cache[cl[c].sess]]]
    /\ UNCHANGED <<dbSessions, dbMessages, nextSessionId, nextMsgId, nextReq,
                   cache, bgTasks>>
    /\ UNCHANGED notStore

\* the messages in the state the graph returns: what was loaded, the human
\* message of this request and, when the Writer succeeded, its answer
GraphResult(r, ai) ==
    r.snap \cup {[role |-> "USER", req |-> r.req]}
           \cup (IF ai THEN {[role |-> "AI", req |-> r.req]} ELSE {})

\* result = await self.graph.ainvoke(state, config).  The graph answers with
\* an ai_message, or without one (Writer failure, guardrail), or raises /
\* runs into the 60 s timeout of send_message, which answers with an error
RunGraph(c) ==
    /\ cl[c].pc = "ch_graph"
    /\ \E out \in {"ai", "no_ai", "raise"} :
        cl' = [cl EXCEPT ![c] =
                 IF out = "raise" THEN Respond(cl[c], FALSE, FALSE)
                 ELSE [cl[c] EXCEPT !.pc = "ch_proc_save", !.ai = (out = "ai")]]
    /\ UNCHANGED <<dbSessions, dbMessages, nextSessionId, nextMsgId, nextReq,
                   cache, bgTasks>>
    /\ UNCHANGED notStore

\* process_message 99-107: start the background evaluation of the turn when
\* there is an ai_message, then save_state(session_id, result); back in
\* send_message the AI message is saved only when there is one
ProcessSave(c) ==
    /\ cl[c].pc = "ch_proc_save"
    /\ LET r == cl[c]
           res == GraphResult(r, r.ai)
       IN  /\ cache' = [cache EXCEPT ![r.sess] = res]
           /\ bgTasks' = IF r.ai THEN bgTasks \cup {[sid |-> r.sess, msgs |-> res]}
                         ELSE bgTasks
           /\ cl' = [cl EXCEPT ![c] =
                       IF r.ai
                       THEN [r EXCEPT !.pc = "gocs_select", !.caller = "chat_ai",
                                      !.role = "AI", !.snap = {}]
                       ELSE [r EXCEPT !.pc = "ch_return", !.snap = {}]]
    /\ UNCHANGED <<dbSessions, dbMessages, nextSessionId, nextMsgId, nextReq>>
    /\ UNCHANGED notStore

\* _run_eval_turn_background: save_state(session_id, {**main_state, ..}),
\* or an exception that is logged
BackgroundEvalSave ==
    /\ \E t \in bgTasks, ok \in BOOLEAN :
        /\ bgTasks' = bgTasks \ {t}
        /\ cache' = IF ok THEN [cache EXCEPT ![t.sid] = t.msgs] ELSE cache
    /\ UNCHANGED <<dbSessions, dbMessages, nextSessionId, nextMsgId, nextReq, cl>>
    /\ UNCHANGED notStore

\* send_message step 5: return ChatResponse(ai_message=result["ai_message"],
\* error=False)
ChatReturn(c) ==
    /\ cl[c].pc = "ch_return"
    /\ cl' = [cl EXCEPT ![c] = Respond(cl[c], TRUE, cl[c].ai)]
    /\ UNCHANGED <<dbSessions, dbMessages, nextSessionId, nextMsgId, nextReq,
                   cache, bgTasks>>
    /\ UNCHANGED notStore

NextStore ==
    \/ \E c \in Clients : StartSaveMessage(c)
    \/ \E c \in Clients : StartBatch(c)
    \/ \E c \in Clients : StartChat(c)
    \/ \E c \in Clients : GetOrCreateSelect(c)
    \/ \E c \in Clients : GetOrCreateInsert(c)
    \/ \E c \in Clients : DuplicateCheck(c)
    \/ \E c \in Clients : AddMessage(c)
    \/ \E c \in Clients : Commit(c)
    \/ \E c \in Clients : CheckpointLoad(c)
    \/ \E c \in Clients : CheckpointSave(c)
    \/ \E c \in Clients : BatchInsert(c)
    \/ \E c \in Clients : BatchCommit(c)
    \/ \E c \in Clients : ProcessLoad(c)
    \/ \E c \in Clients : RunGraph(c)
    \/ \E c \in Clients : ProcessSave(c)
    \/ \E c \in Clients : ChatReturn(c)
    \/ BackgroundEvalSave


(***************************************************************************)
(* The judge queue: MemoryQueueAdapter, RedisQueueAdapter, JudgeWorker.    *)
(***************************************************************************)
\* number of tasks created in one behaviour
MaxTasks == 2
\* number of concurrent callers of enqueue
NProducers == 2
\* number of Redis commands that fail in one behaviour
MaxFaults == 2

Tasks == 1..MaxTasks
Producers == 1..NProducers

\* the local variable task of _worker_loop before its first assignment
Unbound == -1

Terminal == {"completed", "failed"}

InitQueue(a) ==
    /\ adapter = a
    /\ queue = <<>>
    /\ status = [t \in Tasks |-> "unknown"]
    /\ results = [t \in Tasks |-> "none"]
    /\ nextTask = 0
    /\ prod = [p \in Producers |-> [pc |-> "idle", task |-> 0]]
    /\ worker = [pc |-> "dequeue", task |-> Unbound, cur |-> None,
                 res |-> "none", handling |-> FALSE, running |-> TRUE]
    /\ statusLog = [t \in Tasks |-> <<>>]
    /\ taken = {}
    /\ faults = 0

\* self.status[task_id] = s  /  SET judge_status:<task_id> s
WriteStatus(t, s) ==
    /\ status' = [status EXCEPT ![t] = s]
    /\ statusLog' = [statusLog EXCEPT ![t] =
                        IF status[t] = s THEN @ ELSE Append(@, s)]

\* a save_result that stores result.status itself as the task status
ResultStatusRaw(res) == res

\* "completed" if result.status == "success" else "failed"
ResultStatus(res) == IF res = "success" THEN "completed" ELSE "failed"

\* a Redis command raises (connection error); the memory adapter never does
CanFail == adapter = "redis" /\ faults < MaxFaults

(***************************************************************************)
(* enqueue                                                                 *)
(***************************************************************************)
\* MemoryQueueAdapter.enqueue: append and status under the lock
MemEnqueue(p) ==
    /\ adapter = "memory"
    /\ prod[p].pc = "idle"
    /\ nextTask < MaxTasks
    /\ nextTask' = nextTask + 1
    /\ queue' = Append(queue, nextTask + 1)
    /\ WriteStatus(nextTask + 1, "pending")
    /\ UNCHANGED <<adapter, results, prod, worker, taken, faults>>
    /\ UNCHANGED notQueue

\* RedisQueueAdapter.enqueue, first command: LPUSH judge_queue:pending
RedisEnqueuePush(p) ==
    /\ adapter = "redis"
    /\ prod[p].pc = "idle"
    /\ nextTask < MaxTasks
    /\ nextTask' = nextTask + 1
    /\ \/ /\ queue' = Append(queue, nextTask + 1)
          /\ prod' = [prod EXCEPT ![p] = [pc |-> "set_pending", task |-> nextTask + 1]]
          /\ UNCHANGED faults
       \/ /\ CanFail
          /\ faults' = faults + 1
          /\ UNCHANGED <<queue, prod>>
    /\ UNCHANGED <<adapter, status, results, worker, statusLog, taken>>
    /\ UNCHANGED notQueue

\* RedisQueueAdapter.enqueue, second command: SET judge_status:<id> pending
RedisEnqueueSetPending(p) ==
    /\ prod[p].pc = "set_pending"
    /\ prod' = [prod EXCEPT ![p] = [pc |-> "idle", task |-> 0]]
    /\ \/ /\ WriteStatus(prod[p].task, "pending")
          /\ UNCHANGED faults
       \/ /\ CanFail
          /\ faults' = faults + 1
          /\ UNCHANGED <<status, statusLog>>
    /\ UNCHANGED <<adapter, queue, results, nextTask, worker, taken>>
    /\ UNCHANGED notQueue

(***************************************************************************)
(* JudgeWorker._worker_loop                                                *)
(***************************************************************************)
\* an exception reaches "except Exception" of the loop body
ToHandler(w) == [w EXCEPT !.pc = "handler", !.cur = None]

\* task = await self.queue.dequeue(), MemoryQueueAdapter: popleft and status
\* under the lock; an empty queue gives None, a sleep and the next round
MemDequeue ==
    /\ adapter = "memory"
    /\ worker.running /\ worker.pc = "dequeue"
    /\ IF queue = <<>>
       THEN /\ worker' = [worker EXCEPT !.task = None]
            /\ UNCHANGED <<queue, status, statusLog, taken>>
       ELSE /\ queue' = Tail(queue)
            /\ WriteStatus(Head(queue), "processing")
            /\ taken' = taken \cup {Head(queue)}
            /\ worker' = [worker EXCEPT !.task = Head(queue), !.cur = Head(queue),
                                        !.pc = "set_status"]
    /\ UNCHANGED <<adapter, results, nextTask, prod, faults>>
    /\ UNCHANGED notQueue

\* RedisQueueAdapter.dequeue, first command: BRPOP judge_queue:pending 1
RedisDequeuePop ==
    /\ adapter = "redis"
    /\ worker.running /\ worker.pc = "dequeue"
    /\ \/ /\ queue = <<>>
          /\ worker' = [worker EXCEPT !.task = None]
          /\ UNCHANGED <<queue, taken, faults>>
       \/ /\ queue # <<>>
          /\ queue' = Tail(queue)
          /\ taken' = taken \cup {Head(queue)}
          /\ worker' = [worker EXCEPT !.cur = Head(queue), !.pc = "dq_mark"]
          /\ UNCHANGED faults
       \/ /\ CanFail
          /\ faults' = faults + 1
          /\ worker' = ToHandler(worker)
          /\ UNCHANGED <<queue, taken>>
    /\ UNCHANGED <<adapter, status, results, nextTask, prod, statusLog>>
    /\ UNCHANGED notQueue

\* RedisQueueAdapter.dequeue, second command: SET judge_status:<id>
\* processing; only then does dequeue return and task get assigned
RedisDequeueMark ==
    /\ worker.pc = "dq_mark"
    /\ \/ /\ WriteStatus(worker.cur, "processing")
          /\ worker' = [worker EXCEPT !.task = worker.cur, !.pc = "set_status"]
          /\ UNCHANGED faults
       \/ /\ CanFail
          /\ faults' = faults + 1
          /\ worker' = ToHandler(worker)
          /\ UNCHANGED <<status, statusLog>>
    /\ UNCHANGED <<adapter, queue, results, nextTask, prod, taken>>
    /\ UNCHANGED notQueue

\* await self.queue.set_status(task.task_id, "processing")
WorkerSetStatus ==
    /\ worker.pc = "set_status"
    /\ \/ /\ WriteStatus(worker.task, "processing")
          /\ worker' = [worker EXCEPT !.pc = "execute"]
          /\ UNCHANGED faults
       \/ /\ CanFail
          /\ faults' = faults + 1
          /\ worker' = ToHandler(worker)
          /\ UNCHANGED <<status, statusLog>>
    /\ UNCHANGED <<adapter, queue, results, nextTask, prod, taken>>
    /\ UNCHANGED notQueue

\* result = await self._execute_task(task): every exception of the sandbox
\* call is turned into a JudgeResult, so the call itself never raises
ExecuteTask ==
    /\ worker.pc = "execute"
    /\ \E res \in {"success", "error", "timeout"} :
        worker' = [worker EXCEPT !.pc = "save", !.res = res]
    /\ UNCHANGED <<adapter, queue, status, results, nextTask, prod, statusLog,
                   taken, faults>>
    /\ UNCHANGED notQueue

\* the loop body is left: next round of "while self.running"
NextRound(w) == [w EXCEPT !.pc = "dequeue", !.cur = None, !.res = "none",
                          !.handling = FALSE]

\* an exception inside save_result: the one of the handler is only logged
SaveRaised(w) == IF w.handling THEN NextRound(w) ELSE ToHandler(w)

\* MemoryQueueAdapter.save_result: result and status under the lock
MemSaveResult ==
    /\ adapter = "memory"
    /\ worker.pc = "save"
    /\ results' = [results EXCEPT ![worker.task] = worker.res]
    /\ WriteStatus(worker.task, ResultStatus(worker.res))
    /\ worker' = NextRound(worker)
    /\ UNCHANGED <<adapter, queue, nextTask, prod, taken, faults>>
    /\ UNCHANGED notQueue

\* a save_result that sets the status before it stores the result
RedisSaveStatusFirst ==
    /\ adapter = "redis"
    /\ worker.pc = "save"
    /\ WriteStatus(worker.task, ResultStatus(worker.res))
    /\ worker' = [worker EXCEPT !.pc = "save_status"]
    /\ UNCHANGED <<adapter, queue, results, nextTask, prod, taken, faults>>
    /\ UNCHANGED notQueue

\* RedisQueueAdapter.save_result, first command: SET judge_result:<id>
RedisSaveResult ==
    /\ adapter = "redis"
    /\ worker.pc = "save"
    /\ \/ /\ results' = [results EXCEPT ![worker.task] = worker.res]
          /\ worker' = [worker EXCEPT !.pc = "save_status"]
          /\ UNCHANGED faults
       \/ /\ CanFail
          /\ faults' = faults + 1
          /\ worker' = SaveRaised(worker)
          /\ UNCHANGED results
    /\ UNCHANGED <<adapter, queue, status, nextTask, prod, statusLog, taken>>
    /\ UNCHANGED notQueue

\* RedisQueueAdapter.save_result, second command: SET judge_status:<id>
RedisSaveStatus ==
    /\ worker.pc = "save_status"
    /\ \/ /\ WriteStatus(worker.task, ResultStatus(worker.res))
          /\ worker' = NextRound(worker)
          /\ UNCHANGED faults
       \/ /\ CanFail
          /\ faults' = faults + 1
          /\ worker' = SaveRaised(worker)
          /\ UNCHANGED <<status, statusLog>>
    /\ UNCHANGED <<adapter, queue, results, nextTask, prod, taken>>
    /\ UNCHANGED notQueue

\* except Exception: "if task:" reads the local variable.  Unbound on the
\* first round: UnboundLocalError leaves the loop and start() stops the
\* worker.  None: nothing to save.  Otherwise an error result is saved for
\* whatever task the variable holds.
WorkerHandler ==
    /\ worker.pc = "handler"
    /\ worker' = IF worker.task = Unbound
                 THEN [worker EXCEPT !.pc = "stopped", !.running = FALSE]
                 ELSE IF worker.task = None THEN NextRound(worker)
                 ELSE [worker EXCEPT !.pc = "save", !.res = "error",
                                     !.handling = TRUE]
    /\ UNCHANGED <<adapter, queue, status, results, nextTask, prod, statusLog,
                   taken, faults>>
    /\ UNCHANGED notQueue


NextQueue ==
    \/ \E p \in Producers : MemEnqueue(p)
    \/ \E p \in Producers : RedisEnqueuePush(p)
    \/ \E p \in Producers : RedisEnqueueSetPending(p)
    \/ MemDequeue
    \/ RedisDequeuePop
    \/ RedisDequeueMark
    \/ WorkerSetStatus
    \/ ExecuteTask
    \/ MemSaveResult
    \/ RedisSaveResult
    \/ RedisSaveStatus
    \/ WorkerHandler

(***************************************************************************)
(* RateLimitingMiddleware                                                  *)
(***************************************************************************)
\* RateLimitingMiddleware(max_calls=1, period=2.0, key_func=..), as the
\* key-based test builds it; one tick of the clock is one second
max_calls == 1
period == 2
\* number of callers of the wrapped chain in one behaviour
NCallers == 3
\* number of rate-limit keys the key function can return
NKeys == 2
\* the clock stops after this many periods
MaxPeriods == 2

Callers == 1..NCallers
Keys == 1..NKeys
MaxTime == MaxPeriods * period

IdleCaller == [pc |-> "idle", key |-> 1, wake |-> 0, calls |-> 0, slept |-> FALSE]

InitRate ==
    /\ now = 0
    /\ callHistory = [k \in Keys |-> <<>>]
    /\ callers = [c \in Callers |-> IdleCaller]
    /\ invocations = [k \in Keys |-> <<>>]

RECURSIVE SeqFilterNewer(_, _)
\* _clean_old_calls: keep the timestamps with timestamp > cutoff_time
SeqFilterNewer(h, cutoff) ==
    IF h = <<>> THEN <<>>
    ELSE IF Head(h) > cutoff
         THEN <<Head(h)>> \o SeqFilterNewer(Tail(h), cutoff)
         ELSE SeqFilterNewer(Tail(h), cutoff)

CleanOldCalls(h, t) == SeqFilterNewer(h, t - period)

SeqMin(h) == CHOOSE x \in {h[i] : i \in DOMAIN h} :
                \A i \in DOMAIN h : x <= h[i]

\* _check_rate_limit, the value it returns: the time to wait, 0 for none
WaitTime(h, t) ==
    LET cleaned == CleanOldCalls(h, t)
    IN  IF Len(cleaned) >= max_calls /\ period - (t - SeqMin(cleaned)) > 0
        THEN period - (t - SeqMin(cleaned))
        ELSE 0

\* _check_rate_limit, the history it leaves: cleaned, and with the call
\* recorded unless a wait is returned
CheckedHistory(h, t) ==
    IF WaitTime(h, t) > 0 THEN CleanOldCalls(h, t)
    ELSE Append(CleanOldCalls(h, t), t)

\* rate_limited_chain up to its first suspension: _get_key, then
\* _check_rate_limit under the lock; with no wait chain.ainvoke starts at
\* once, otherwise the caller goes to asyncio.sleep(wait_time)
CallWrapped(c) ==
    /\ callers[c].pc = "idle"
    /\ callers[c].calls = 0
    /\ now + period <= MaxTime
    /\ \E k \in Keys :
        LET w == WaitTime(callHistory[k], now)
        IN  /\ callHistory' = [callHistory EXCEPT ![k] = CheckedHistory(@, now)]
            /\ IF w > 0
               THEN /\ callers' = [callers EXCEPT ![c] =
                                     [pc |-> "sleeping", key |-> k,
                                      wake |-> now + w, calls |-> 0,
                                      slept |-> TRUE]]
                    /\ UNCHANGED invocations
               ELSE /\ callers' = [callers EXCEPT ![c] =
                                     [pc |-> "invoking", key |-> k,
                                      wake |-> now, calls |-> 1,
                                      slept |-> FALSE]]
                    /\ invocations' = [invocations EXCEPT ![k] = Append(@, now)]
    /\ UNCHANGED now
    /\ UNCHANGED notRate

\* a wrapper that gives up on a call over the limit instead of delaying it
WakeAndDrop(c) ==
    /\ callers[c].pc = "sleeping"
    /\ now >= callers[c].wake
    /\ callers' = [callers EXCEPT ![c] = [@ EXCEPT !.pc = "returned"]]
    /\ UNCHANGED <<now, callHistory, invocations>>
    /\ UNCHANGED notRate

\* asyncio.sleep(wait_time) is over: return await chain.ainvoke(inputs, config)
WakeAndInvoke(c) ==
    /\ callers[c].pc = "sleeping"
    /\ now >= callers[c].wake
    /\ callers' = [callers EXCEPT ![c] = [@ EXCEPT !.pc = "invoking",
                                                   !.calls = @ + 1]]
    /\ invocations' = [invocations EXCEPT ![callers[c].key] = Append(@, now)]
    /\ UNCHANGED <<now, callHistory>>
    /\ UNCHANGED notRate

\* the wrapped chain returns (or raises) and the wrapper hands that on
ChainReturns(c) ==
    /\ callers[c].pc = "invoking"
    /\ callers' = [callers EXCEPT ![c] = [@ EXCEPT !.pc = "returned"]]
    /\ UNCHANGED <<now, callHistory, invocations>>
    /\ UNCHANGED notRate

\* time.time() advances
Tick ==
    /\ now < MaxTime
    /\ now' = now + 1
    /\ UNCHANGED <<callHistory, callers, invocations>>
    /\ UNCHANGED notRate

NextRate ==
    \/ \E c \in Callers : CallWrapped(c)
    \/ \E c \in Callers : WakeAndInvoke(c)
    \/ \E c \in Callers : ChainReturns(c)
    \/ Tick

(***************************************************************************)
(* The middleware around an LLM call: RetryMiddleware and                  *)
(* LoggingMiddleware, and the Writer node that calls the wrapped chain.    *)
(***************************************************************************)
\* largest max_retries a RetryMiddleware is built with
MaxRetries == 2

\* exception classes; every one of them derives from Exception
Classes == {"Exception", "TimeoutError"}

\* isinstance(exception, classes)
IsInstance(cls, classes) == cls \in classes \/ "Exception" \in classes

UpperLetters ==
    <<"A", "B", "C", "D", "E", "F", "G", "H", "I", "J", "K", "L", "M",
      "N", "O", "P", "Q", "R", "S", "T", "U", "V", "W", "X", "Y", "Z">>

LowerLetters ==
    <<"a", "b", "c", "d", "e", "f", "g", "h", "i", "j", "k", "l", "m",
      "n", "o", "p", "q", "r", "s", "t", "u", "v", "w", "x", "y", "z">>

LowerChar(ch) ==
    IF \E i \in 1..26 : UpperLetters[i] = ch
    THEN LowerLetters[CHOOSE i \in 1..26 : UpperLetters[i] = ch]
    ELSE ch

\* a lowering that leaves the text as it is
LowerIdentity(t) == t

\* str.lower()
Lower(t) == [i \in 1..Len(t) |-> LowerChar(t[i])]

\* sub in t
Contains(t, sub) ==
    \E i \in 1..(Len(t) - Len(sub) + 1) : SubSeq(t, i, i + Len(sub) - 1) = sub

kwRate == <<"r", "a", "t", "e">>
kwQuota == <<"q", "u", "o", "t", "a">>
kwTimeout == <<"t", "i", "m", "e", "o", "u", "t">>
kwContext == <<"c", "o", "n", "t", "e", "x", "t">>
kwToken == <<"t", "o", "k", "e", "n">>

\* the texts of the exceptions the LLM call raises, letter by letter
\* "Rate limit exceeded", the message of test_retry_success_on_second_attempt
msgRateLimit ==
    <<"R", "a", "t", "e", " ", "l", "i", "m", "i", "t", " ", "e", "x", "c",
      "e", "e", "d", "e", "d">>

\* "Persistent error", the message of test_retry_exhausted
msgPersistent ==
    <<"P", "e", "r", "s", "i", "s", "t", "e", "n", "t", " ", "e", "r", "r",
      "o", "r">>

\* "QUOTA"
msgQuota ==
    <<"Q", "U", "O", "T", "A">>

\* "Timeout"
msgTimeout ==
    <<"T", "i", "m", "e", "o", "u", "t">>

\* "Context too long"
msgContext ==
    <<"C", "o", "n", "t", "e", "x", "t", " ", "t", "o", "o", " ", "l", "o",
      "n", "g">>

\* "Token rate"
msgTokenRate ==
    <<"T", "o", "k", "e", "n", " ", "r", "a", "t", "e">>

\* "Max tokens"
msgTokens ==
    <<"M", "a", "x", " ", "t", "o", "k", "e", "n", "s">>

Messages == {msgRateLimit, msgPersistent, msgQuota, msgTimeout, msgContext,
             msgTokenRate, msgTokens}

\* what one call of a chain does: it returns a value (val, "" for an empty
\* answer) or raises an exception of class cls with the text msg
NoOutcome == [kind |-> "none", cls |-> "", msg |-> <<>>, val |-> ""]

Returned(v) == [kind |-> "ok", cls |-> "", msg |-> <<>>, val |-> v]

Raised(c, m) == [kind |-> "exc", cls |-> c, msg |-> m, val |-> ""]

Exceptions == {Raised(c, m) : c \in Classes, m \in Messages}

LLMOutcomes == {Returned("text"), Returned("")} \cup Exceptions

\* RetryMiddleware(max_retries, retry_exceptions, retry_condition): no
\* retry_exceptions is {}, no retry_condition is "none"; a retry_condition
\* is a function of the exception, here the constant ones
Configs ==
    [max_retries : 0..MaxRetries,
     retry_exceptions : {{}, {"TimeoutError"}},
     retry_condition : {"none", "always", "never"}]

\* self.retry_exceptions = retry_exceptions or (Exception,)
RetryExceptions == IF rcfg.retry_exceptions = {} THEN {"Exception"}
                   ELSE rcfg.retry_exceptions

\* self.retry_condition(exception)
RetryCondition(e) == rcfg.retry_condition = "always"

\* RetryMiddleware._should_retry
ShouldRetry(e, attempt) ==
    IF attempt >= rcfg.max_retries THEN FALSE
    ELSE IF rcfg.retry_condition # "none" THEN RetryCondition(e)
    ELSE IF ~IsInstance(e.cls, RetryExceptions)
         THEN \/ Contains(Lower(e.msg), kwRate)
              \/ Contains(Lower(e.msg), kwQuota)
              \/ Contains(Lower(e.msg), kwTimeout)
         ELSE TRUE

\* a loop that makes max_retries attempts in all
InRangeShort(attempt) == attempt < rcfg.max_retries

\* for attempt in range(self.max_retries + 1)
InRange(attempt) == attempt < rcfg.max_retries + 1

\* a wrapper that logs the error and returns None instead of raising
LoggedChainSwallow(o) == Returned(IF o.kind = "ok" THEN o.val ELSE "")

\* logged_chain: return result on success; log and raise on an exception
LoggedChain(o) ==
    IF o.kind = "ok" THEN Returned(o.val) ELSE Raised(o.cls, o.msg)

IdleRetry == [pc |-> "idle", attempt |-> 0, calls |-> 0, last |-> NoOutcome,
              out |-> NoOutcome, fails |-> <<>>]

IdleWriter == [pc |-> "idle",
               res |-> [raised |-> FALSE, status |-> "none", ai |-> "none"]]

ChainIdle(cfg) ==
    /\ rcfg = cfg
    /\ rst = IdleRetry
    /\ baseOut = NoOutcome
    /\ logOut = NoOutcome
    /\ wst = IdleWriter

InitChain == \E cfg \in Configs : ChainIdle(cfg)

\* the configuration test_retry_exhausted builds
TestConfig == [max_retries |-> 2, retry_exceptions |-> {},
               retry_condition |-> "none"]

\* writer_llm: chain_result = await chain.ainvoke(state); retry_chain starts
\* with last_exception = None and the first round of its loop
WriterCall ==
    /\ wst.pc = "idle"
    /\ wst' = [wst EXCEPT !.pc = "waiting"]
    /\ rst' = IF InRange(0) THEN [IdleRetry EXCEPT !.pc = "attempt"]
              ELSE [IdleRetry EXCEPT !.pc = "raised"]
    /\ UNCHANGED <<rcfg, baseOut, logOut>>
    /\ UNCHANGED notChain

\* one round of retry_chain: the logged chain is invoked; its result is
\* returned, or its exception is raised on (no retry) or kept as
\* last_exception before asyncio.sleep(delay)
RetryAttempt ==
    /\ rst.pc = "attempt"
    /\ \E o \in LLMOutcomes :
        LET lo == LoggedChain(o)
        IN  /\ baseOut' = o
            /\ logOut' = lo
            /\ rst' = IF lo.kind = "ok"
                      THEN [rst EXCEPT !.pc = "returned", !.calls = @ + 1,
                                       !.out = lo]
                      ELSE IF ~ShouldRetry(lo, rst.attempt)
                      THEN [rst EXCEPT !.pc = "raised", !.calls = @ + 1,
                                       !.last = lo, !.out = lo,
                                       !.fails = Append(@, lo)]
                      ELSE [rst EXCEPT !.pc = "sleeping", !.calls = @ + 1,
                                       !.last = lo, !.fails = Append(@, lo)]
    /\ UNCHANGED <<rcfg, wst>>
    /\ UNCHANGED notChain

\* the sleep is over: the next round of the loop, or after the last round
\* raise last_exception
RetryWake ==
    /\ rst.pc = "sleeping"
    /\ rst' = IF InRange(rst.attempt + 1)
              THEN [rst EXCEPT !.pc = "attempt", !.attempt = @ + 1]
              ELSE [rst EXCEPT !.pc = "raised", !.attempt = @ + 1,
                               !.out = rst.last]
    /\ UNCHANGED <<rcfg, baseOut, logOut, wst>>
    /\ UNCHANGED notChain

\* a classification that looks for context / token first
WriterStatusThresholdFirst(m) ==
    IF Contains(Lower(m), kwContext) \/ Contains(Lower(m), kwToken)
    THEN "FAILED_THRESHOLD"
    ELSE IF Contains(Lower(m), kwRate) \/ Contains(Lower(m), kwQuota)
    THEN "FAILED_RATE_LIMIT"
    ELSE "FAILED_TECHNICAL"

\* writer_llm, except Exception: error_msg = str(e).lower() and its class
WriterStatus(m) ==
    IF Contains(Lower(m), kwRate) \/ Contains(Lower(m), kwQuota)
    THEN "FAILED_RATE_LIMIT"
    ELSE IF Contains(Lower(m), kwContext) \/ Contains(Lower(m), kwToken)
    THEN "FAILED_THRESHOLD"
    ELSE "FAILED_TECHNICAL"

\* what writer_llm returns for the outcome of the chain: the answer (the
\* stock apology for an empty one) with SUCCESS, or for an exception that
\* "except Exception" catches ai_message None with the failure status
WriterResult(out) ==
    IF out.kind = "ok"
    THEN [raised |-> FALSE, status |-> "SUCCESS",
          ai |-> IF out.val = "" THEN "apology" ELSE out.val]
    ELSE IF IsInstance(out.cls, {"Exception"})
    THEN [raised |-> FALSE, status |-> WriterStatus(out.msg), ai |-> "none"]
    ELSE [raised |-> TRUE, status |-> "none", ai |-> "none"]

\* the wrapped chain has returned or raised: writer_llm returns its result
WriterReturn ==
    /\ wst.pc = "waiting"
    /\ rst.pc \in {"returned", "raised"}
    /\ wst' = [pc |-> "done", res |-> WriterResult(rst.out)]
    /\ UNCHANGED <<rcfg, rst, baseOut, logOut>>
    /\ UNCHANGED notChain

NextChain ==
    \/ WriterCall
    \/ RetryAttempt
    \/ RetryWake
    \/ WriterReturn

(***************************************************************************)
(* One session through EvalService.process_message: the graph state kept   *)
(* in Redis, the nodes of the main graph, the background evaluation of a   *)
(* chat turn and, on submission, eval_turn_submit_guard.                   *)
(***************************************************************************)
\* requests (chat turns and the submission) made in the session
MaxTurns == 3

\* the average an evaluator returns, on its 0..10 scale, for the prompts of
\* this session
Averages == {5}

\* total_tokens of one LLM answer (0 would stand for an answer without
\* usage_metadata, for which extract_token_usage returns None)
TokenUsages == {1}

\* get_initial_state(); "saved" tells a state read from Redis from the
\* absence of one
get_initial_state ==
    [saved |-> FALSE, current_turn |-> 0, messages |-> {},
     is_guardrail_failed |-> FALSE, ai_message |-> FALSE,
     is_submitted |-> FALSE, turn_scores |-> {}, guard_scores |-> {},
     aggregate_turn_score |-> <<>>,
     chat_tokens |-> 0, eval_tokens |-> 0]

IdleRequest == [pc |-> "idle", state |-> get_initial_state]

\* eval_turn_submit_guard: the turns whose task waits for the semaphore,
\* those that hold it, the results gathered, the turns whose evaluation
\* raised and the TurnLogs written by save_turn_log
IdleGuard == [pc |-> "idle", n |-> 0, turns_to_evaluate |-> {}, running |-> {},
              results |-> {}, failed |-> {}, turn_logs |-> {}]

SessIdle ==
    /\ graphState = get_initial_state
    /\ preq = IdleRequest
    /\ evalTasks = {}
    /\ guard = IdleGuard
    /\ blocked = {}
    /\ evaluated = {}

\* if not new_tokens: return state; else existing total + new total
accumulate_tokens(st, new_tokens, token_type) ==
    IF new_tokens = 0 THEN st
    ELSE IF token_type = "chat"
         THEN [st EXCEPT !.chat_tokens = @ + new_tokens]
         ELSE [st EXCEPT !.eval_tokens = @ + new_tokens]

\* turn_scores[key] = entry, on a dict
PutScore(scores, turn, score) ==
    {e \in scores : e.turn # turn} \cup {[turn |-> turn, score |-> score]}

\* process_message 57-80: the stored state, or the initial one, with the
\* parameters of this request; a submitted session takes no further request
LoadState ==
    /\ preq.pc = "idle"
    /\ ~graphState.is_submitted
    /\ graphState.current_turn < MaxTurns
    /\ \E is_submission \in BOOLEAN :
        preq' = [pc |-> "handle_request",
                 state |-> [graphState EXCEPT !.is_submitted = is_submission]]
    /\ UNCHANGED <<graphState, evalTasks, guard, blocked, evaluated>>
    /\ UNCHANGED notSess

\* handle_request_load_state: the turn counter advances and the flags of the
\* previous turn are cleared; a submission goes on to the guard
HandleRequest ==
    /\ preq.pc = "handle_request"
    /\ preq' = [pc |-> IF preq.state.is_submitted THEN "guard" ELSE "intent",
                state |-> [preq.state EXCEPT !.current_turn = @ + 1,
                                             !.is_guardrail_failed = FALSE]]
    /\ UNCHANGED <<graphState, evalTasks, guard, blocked, evaluated>>
    /\ UNCHANGED notSess

\* intent_analyzer: the classifier lets the message pass or blocks it, and
\* the tokens of its LLM call are accumulated
IntentAnalyzer ==
    /\ preq.pc = "intent"
    /\ \E failed \in BOOLEAN, tokens \in TokenUsages :
        /\ preq' = [pc |-> "writer",
                    state |-> [accumulate_tokens(preq.state, tokens, "chat")
                                  EXCEPT !.is_guardrail_failed = failed]]
        /\ blocked' = IF failed THEN blocked \cup {preq.state.current_turn}
                      ELSE blocked
    /\ UNCHANGED <<graphState, evalTasks, guard, evaluated>>
    /\ UNCHANGED notSess

\* writer_llm: an answer (the refusal text when the guardrail blocked the
\* message) with the two messages of the turn, or a failure without them
WriterNode ==
    /\ preq.pc = "writer"
    /\ \E success \in BOOLEAN, tokens \in TokenUsages :
        LET st == preq.state
            t == st.current_turn
        IN  preq' =
              [pc |-> "save",
               state |->
                 IF success
                 THEN [accumulate_tokens(st, tokens, "chat") EXCEPT
                          !.ai_message = TRUE,
                          !.messages = @ \cup {[turn |-> t, role |-> "user"],
                                               [turn |-> t, role |-> "assistant"]}]
                 ELSE [st EXCEPT !.ai_message = FALSE]]
    /\ UNCHANGED <<graphState, evalTasks, guard, blocked, evaluated>>
    /\ UNCHANGED notSess

\* for turn in range(1, current_turn): a turn goes into turns_to_evaluate
\* when the state holds its user and its assistant message, and is only
\* logged otherwise
TurnsToEvaluate(st) ==
    {t \in 1..(st.current_turn - 1) :
        /\ [turn |-> t, role |-> "user"] \in st.messages
        /\ [turn |-> t, role |-> "assistant"] \in st.messages}

\* eval_turn_submit_guard up to the gather
GuardExtract ==
    /\ preq.pc = "guard"
    /\ guard' = [IdleGuard EXCEPT !.pc = "gather", !.n = preq.state.current_turn,
                    !.turns_to_evaluate = TurnsToEvaluate(preq.state)]
    /\ preq' = [preq EXCEPT !.pc = "gather"]
    /\ UNCHANGED <<graphState, evalTasks, blocked, evaluated>>
    /\ UNCHANGED notSess

\* aggregate_turn_log: 0 for a guardrail-failed turn, else the mean of the
\* averages, on the 0..100 scale
aggregate_turn_log(is_guardrail_failed, average) ==
    (IF is_guardrail_failed THEN 0 ELSE average) * 10

\* sem = asyncio.Semaphore(5)
SemaphoreValue == 5

\* a task enters "async with sem" whatever number of tasks is inside
AcquireUnbounded ==
    /\ guard.pc = "gather"
    /\ \E t \in guard.turns_to_evaluate :
        guard' = [guard EXCEPT !.turns_to_evaluate = @ \ {t},
                               !.running = @ \cup {t}]
    /\ UNCHANGED <<graphState, preq, evalTasks, blocked, evaluated>>
    /\ UNCHANGED notSess

\* _process_with_semaphore: a task enters "async with sem" when the
\* semaphore has a free slot
AcquireSemaphore ==
    /\ guard.pc = "gather"
    /\ Cardinality(guard.running) < SemaphoreValue
    /\ \E t \in guard.turns_to_evaluate :
        guard' = [guard EXCEPT !.turns_to_evaluate = @ \ {t},
                               !.running = @ \cup {t}]
    /\ UNCHANGED <<graphState, preq, evalTasks, blocked, evaluated>>
    /\ UNCHANGED notSess

\* _process_single_turn inside the semaphore, which is released on return:
\* turn_state is built with "is_guardrail_failed": False; the evaluation
\* ends with save_turn_log and the evaluator's score, or it raised and the
\* result is score 0 with the failure as final_reasoning, and no
\* save_turn_log
ProcessSingleTurn ==
    /\ guard.pc = "gather"
    /\ \E t \in guard.running, avg \in Averages, raised \in BOOLEAN :
        LET score == IF raised THEN 0 ELSE avg * 10
        IN  /\ guard' = [guard EXCEPT
                           !.running = @ \ {t},
                           !.results = @ \cup {[turn |-> t, score |-> score]},
                           !.failed = IF raised THEN @ \cup {t} ELSE @,
                           !.turn_logs = IF raised THEN @
                                         ELSE @ \cup {[turn |-> t, score |-> score]}]
            /\ evaluated' = evaluated \cup
                              {[turn |-> t, path |-> "guard", score |-> score]}
    /\ UNCHANGED <<graphState, preq, evalTasks, blocked>>
    /\ UNCHANGED notSess

\* the runtime merges the node's turn_scores into the state's by dict union:
\* the guard's "turn_N" keys differ from the str(N) keys of the chat-time
\* entries, so the state keeps the entries of both, in two maps
merge_turn_scores(st, update) == [st EXCEPT !.guard_scores = update]

\* turn_scores.items(): the entries under the str(N) keys and those under
\* the "turn_N" keys
TurnScoresItems(st) ==
    {<<"str(N)", e>> : e \in st.turn_scores}
        \cup {<<"turn_N", e>> : e \in st.guard_scores}

\* sum of the turn_score values of a set of entries
SumOfScores(items) ==
    Cardinality({x \in items \X (1..100) : x[2] <= x[1][2].score})

\* round(total / n, 2) in hundredths; a value half way between two
\* hundredths goes the way its binary representation lies
mean_round2(total, n, up) ==
    LET q == (100 * total) \div n
        r == (100 * total) % n
    IN  IF 2 * r > n \/ (2 * r = n /\ up) THEN q + 1 ELSE q

\* aggregate_turn_scores: None without entries, else the rounded mean of
\* every entry's turn_score
aggregate_turn_scores(st, up) ==
    LET all_scores == TurnScoresItems(st)
    IN  IF all_scores = {} THEN <<>>
        ELSE <<mean_round2(SumOfScores(all_scores), Cardinality(all_scores), up)>>

\* the gather is over: turn_scores["turn_N"] for every result
GuardReturn ==
    /\ guard.pc = "gather"
    /\ guard.turns_to_evaluate = {}
    /\ guard.running = {}
    /\ guard' = [guard EXCEPT !.pc = "done"]
    /\ preq' = [pc |-> "holistic",
                state |-> merge_turn_scores(preq.state, guard.results)]
    /\ UNCHANGED <<graphState, evalTasks, blocked, evaluated>>
    /\ UNCHANGED notSess

\* eval_holistic_flow and the nodes after it: aggregate_turn_scores, and the
\* evaluation tokens are accumulated
Holistic ==
    /\ preq.pc = "holistic"
    /\ \E tokens \in TokenUsages, up \in BOOLEAN :
        preq' = [pc |-> "save",
                 state |-> [accumulate_tokens(preq.state, tokens, "eval") EXCEPT
                              !.aggregate_turn_score =
                                  aggregate_turn_scores(preq.state, up)]]
    /\ UNCHANGED <<graphState, evalTasks, guard, blocked, evaluated>>
    /\ UNCHANGED notSess

\* process_message 99-107: start the background evaluation of a chat turn
\* that has an ai_message, then save_state(session_id, result)
SaveState ==
    /\ preq.pc = "save"
    /\ LET result == [preq.state EXCEPT !.saved = TRUE]
       IN  /\ evalTasks' = IF ~result.is_submitted /\ result.ai_message
                           THEN evalTasks \cup {result} ELSE evalTasks
           /\ graphState' = result
    /\ preq' = IdleRequest
    /\ UNCHANGED <<guard, blocked, evaluated>>
    /\ UNCHANGED notSess

\* save_state(session_id, {**main_state, "turn_scores": turn_scores})
SaveEval(main_state, score) ==
    [main_state EXCEPT !.turn_scores =
        PutScore(@, main_state.current_turn, score)]

\* _run_eval_turn_background: the sub-graph runs on a turn_state that has no
\* is_guardrail_failed key, so aggregate_turn_log reads its default False;
\* an exception is logged and nothing is saved
RunEvalTurnBackground ==
    /\ \E main_state \in evalTasks, avg \in Averages, raised \in BOOLEAN :
        /\ evalTasks' = evalTasks \ {main_state}
        /\ IF raised
           THEN UNCHANGED <<graphState, evaluated>>
           ELSE LET score == aggregate_turn_log(FALSE, avg)
                IN  /\ graphState' = SaveEval(main_state, score)
                    /\ evaluated' = evaluated \cup
                          {[turn |-> main_state.current_turn, path |-> "chat",
                            score |-> score]}
    /\ UNCHANGED <<preq, guard, blocked>>
    /\ UNCHANGED notSess

\* chat turns made before the submission that the guard alone is run on
NGuardTurns == 7

\* the submission of a session of NGuardTurns chat turns has reached the
\* guard; answered is the set of turns the Writer answered, and no
\* background evaluation has saved a score
GuardEntered(answered) ==
    LET saved_state ==
          [get_initial_state EXCEPT
              !.saved = TRUE, !.current_turn = NGuardTurns,
              !.ai_message = NGuardTurns \in answered,
              !.messages = {[turn |-> t, role |-> r] :
                               t \in answered, r \in {"user", "assistant"}},
              !.chat_tokens = NGuardTurns + Cardinality(answered)]
    IN  /\ graphState = saved_state
        /\ preq = [pc |-> "guard",
                   state |-> [saved_state EXCEPT !.is_submitted = TRUE,
                                                 !.current_turn = @ + 1]]
        /\ evalTasks = {}
        /\ guard = IdleGuard
        /\ blocked = {}
        /\ evaluated = {}

NextGuard ==
    \/ GuardExtract
    \/ AcquireSemaphore
    \/ ProcessSingleTurn
    \/ GuardReturn
    \/ Holistic

NextSess ==
    \/ LoadState
    \/ HandleRequest
    \/ IntentAnalyzer
    \/ WriterNode
    \/ GuardExtract
    \/ AcquireSemaphore
    \/ ProcessSingleTurn
    \/ GuardReturn
    \/ Holistic
    \/ SaveState
    \/ RunEvalTurnBackground

(***************************************************************************)
(* websocket_chat: one connection, its receive loop and the stream of      *)
(* deltas of a turn.                                                       *)
(***************************************************************************)
\* messages the client sends on the connection, each with a fresh turn_id
MaxWsTurns == 2
\* cancel frames the client sends
MaxCancels == 2
\* chunks the stream of one turn yields at most
MaxChunks == 3

TurnIds == 1..MaxWsTurns

WsIdle ==
    /\ wsIn = <<>>
    /\ wsOut = <<>>
    /\ ws = [pc |-> "receive", turn_id |-> 0, chunks |-> 0]
    /\ active_streams = [t \in TurnIds |-> "absent"]
    /\ wsClient = [messages |-> 0, cancels |-> 0]
    /\ cancelledMid = {}

\* active_streams.get(turn_id, False)
IsCancelled(t) == active_streams[t] = "true"

Frames(type, t) == {i \in 1..Len(wsOut) : wsOut[i] = [type |-> type, turn_id |-> t]}

\* the turn is being streamed as the client sees it: a delta has arrived
\* and neither done, cancelled nor error has
StreamingSeen(t) ==
    /\ Frames("delta", t) # {}
    /\ Frames("done", t) \cup Frames("cancelled", t) \cup Frames("error", t) = {}

\* the client sends {type: "message", turn_id: ..}
ClientMessage ==
    /\ wsClient.messages < MaxWsTurns
    /\ wsIn' = Append(wsIn, [type |-> "message", turn_id |-> wsClient.messages + 1])
    /\ wsClient' = [wsClient EXCEPT !.messages = @ + 1]
    /\ UNCHANGED <<wsOut, ws, active_streams, cancelledMid>>
    /\ UNCHANGED notWs

\* the client sends {type: "cancel", turn_id: t}
ClientCancel ==
    /\ wsClient.cancels < MaxCancels
    /\ \E t \in TurnIds :
        /\ wsIn' = Append(wsIn, [type |-> "cancel", turn_id |-> t])
        /\ cancelledMid' = IF StreamingSeen(t) THEN cancelledMid \cup {t}
                           ELSE cancelledMid
    /\ wsClient' = [wsClient EXCEPT !.cancels = @ + 1]
    /\ UNCHANGED <<wsOut, ws, active_streams>>
    /\ UNCHANGED notWs

\* data = await websocket.receive_json() and the branch on its type: a
\* message clears the flag of its turn and starts the stream, a cancel sets
\* the flag and is answered with cancelled
WsReceive ==
    /\ ws.pc = "receive"
    /\ wsIn # <<>>
    /\ LET data == Head(wsIn)
           t == data.turn_id
       IN  IF data.type = "message"
           THEN /\ active_streams' = [active_streams EXCEPT ![t] = "false"]
                /\ \E n \in 1..MaxChunks :
                    ws' = [pc |-> "stream", turn_id |-> t, chunks |-> n]
                /\ UNCHANGED wsOut
           ELSE /\ active_streams' = [active_streams EXCEPT ![t] = "true"]
                /\ wsOut' = Append(wsOut, [type |-> "cancelled", turn_id |-> t])
                /\ UNCHANGED ws
    /\ wsIn' = Tail(wsIn)
    /\ UNCHANGED <<wsClient, cancelledMid>>
    /\ UNCHANGED notWs

\* one round of async for chunk in process_message_stream(..): cancelled
\* and break when the flag of the turn is set, else the delta is sent; or
\* the stream raises and error is sent
WsChunk ==
    /\ ws.pc = "stream"
    /\ ws.chunks > 0
    /\ LET t == ws.turn_id
       IN  \E raised \in BOOLEAN :
            IF raised
            THEN /\ wsOut' = Append(wsOut, [type |-> "error", turn_id |-> t])
                 /\ active_streams' = [active_streams EXCEPT ![t] = "absent"]
                 /\ ws' = [pc |-> "receive", turn_id |-> 0, chunks |-> 0]
            ELSE IF IsCancelled(t)
            THEN /\ wsOut' = Append(wsOut, [type |-> "cancelled", turn_id |-> t])
                 /\ ws' = [ws EXCEPT !.chunks = 0]
                 /\ UNCHANGED active_streams
            ELSE /\ wsOut' = Append(wsOut, [type |-> "delta", turn_id |-> t])
                 /\ ws' = [ws EXCEPT !.chunks = @ - 1]
                 /\ UNCHANGED active_streams
    /\ UNCHANGED <<wsIn, wsClient, cancelledMid>>
    /\ UNCHANGED notWs

\* after the loop: done unless the flag of the turn is set, and the turn is
\* removed from active_streams
WsStreamEnd ==
    /\ ws.pc = "stream"
    /\ ws.chunks = 0
    /\ LET t == ws.turn_id
       IN  /\ wsOut' = IF IsCancelled(t) THEN wsOut
                       ELSE Append(wsOut, [type |-> "done", turn_id |-> t])
           /\ active_streams' = [active_streams EXCEPT ![t] = "absent"]
    /\ ws' = [pc |-> "receive", turn_id |-> 0, chunks |-> 0]
    /\ UNCHANGED <<wsIn, wsClient, cancelledMid>>
    /\ UNCHANGED notWs

NextWs ==
    \/ ClientMessage
    \/ ClientCancel
    \/ WsReceive
    \/ WsChunk
    \/ WsStreamEnd

(***************************************************************************)
(* The main graph: create_main_graph, its conditional routers and one      *)
(* invocation of it.                                                       *)
(***************************************************************************)
\* node executions after which the graph run is aborted (the recursion
\* limit of the graph runtime)
MaxSteps == 8
\* largest retry_count handed to writer_router
MaxRetryCount == 4

WriterStatuses ==
    {"SUCCESS", "FAILED_TECHNICAL", "FAILED_GUARDRAIL", "FAILED_THRESHOLD",
     "FAILED_RATE_LIMIT", "FAILED_WRITING"}

\* mutant: the retry limit is not consulted
writer_router_no_limit(st) ==
    IF st.writer_status = "SUCCESS"
    THEN IF st.is_submitted THEN "eval_turn" ELSE "end"
    ELSE IF st.writer_status = "FAILED_RATE_LIMIT" THEN "handle_request"
    ELSE IF st.writer_status = "FAILED_THRESHOLD" THEN "summarize_memory"
    ELSE "handle_failure"

writer_router(st) ==
    IF st.writer_status = "SUCCESS"
    THEN IF st.is_submitted THEN "eval_turn" ELSE "end"
    ELSE IF st.writer_status = "FAILED_RATE_LIMIT"
    THEN IF st.retry_count < 3 THEN "handle_request" ELSE "handle_failure"
    ELSE IF st.writer_status = "FAILED_THRESHOLD" THEN "summarize_memory"
    ELSE "handle_failure"

intent_router(st) ==
    IF st.is_submitted \/ st.intent_status = "PASSED_SUBMIT" THEN "eval_turn_guard"
    ELSE IF st.intent_status = "PASSED_HINT" THEN "writer"
    ELSE IF st.intent_status = "FAILED_GUARDRAIL" THEN "writer"
    ELSE IF st.intent_status = "FAILED_RATE_LIMIT" THEN "handle_request"
    ELSE "writer"

main_router(st) == IF st.is_submitted THEN "eval_holistic_flow" ELSE "end"

\* the path maps handed to add_conditional_edges
IntentEdges ==
    [writer |-> "writer", handle_failure |-> "handle_failure",
     summarize_memory |-> "summarize_memory", handle_request |-> "handle_request",
     main_router |-> "eval_holistic_flow"]

WriterEdges ==
    [end |-> "END", eval_turn |-> "eval_turn", handle_failure |-> "handle_failure",
     summarize_memory |-> "summarize_memory", handle_request |-> "handle_request"]

MainEdges ==
    [eval_holistic_flow |-> "eval_holistic_flow", handle_request |-> "handle_request",
     end |-> "END"]

\* the add_edge(a, b) of every other node
FixedEdges ==
    [summarize_memory |-> "handle_request",
     eval_holistic_flow |-> "aggregate_turn_scores",
     aggregate_turn_scores |-> "eval_code_performance",
     eval_code_performance |-> "eval_code_correctness",
     eval_code_correctness |-> "aggregate_final_scores",
     aggregate_final_scores |-> "END"]

\* the node a router's answer leads to; a name that is no key of the path
\* map makes the run raise
Follow(edges, name) == IF name \in DOMAIN edges THEN edges[name] ELSE "KeyError"

Stopped == {"END", "KeyError", "Exception", "GraphRecursionError"}

\* the state process_message hands to graph.ainvoke
GraphIdle(entry, is_submission, retry_count, writer_status) ==
    /\ mnode = entry
    /\ mstate = [is_submitted |-> is_submission, intent_status |-> "None",
                 writer_status |-> writer_status, retry_count |-> retry_count,
                 current_turn |-> 0, final_scores |-> FALSE]
    /\ msteps = 0
    /\ routed = [router |-> "none", name |-> "none"]
    /\ submitReq = is_submission

\* process_message / submit_code: a chat message or a submission on a state
\* whose retry_count is the initial 0 (no node writes it)
InitGraph ==
    \E is_submission \in BOOLEAN : GraphIdle("handle_request", is_submission, 0, "None")

GraphRest == GraphIdle("handle_request", FALSE, 0, "None")

\* writer_router applied to any state
InitRouter ==
    \E s \in BOOLEAN, n \in 0..MaxRetryCount, w \in WriterStatuses \cup {"None"} :
        GraphIdle("writer", s, n, w)

Running == mnode \notin Stopped /\ msteps < MaxSteps

\* handle_request_load_state: current_turn + 1 (counted here from the turn
\* of the state the request found) and the flags cleared; then the edge to
\* intent_analyzer
HandleRequestNode ==
    /\ Running
    /\ mnode = "handle_request"
    /\ mstate' = [mstate EXCEPT !.writer_status = "None", !.current_turn = @ + 1]
    /\ mnode' = "intent_analyzer"
    /\ msteps' = msteps + 1
    /\ UNCHANGED <<routed, submitReq>>
    /\ UNCHANGED notGraph

\* intent_analyzer and intent_router: the classifier's answer sets
\* intent_status and is_submitted (process_output); a rate-limit or quota
\* error gives FAILED_RATE_LIMIT; any other error leaves the node
IntentNode ==
    /\ Running
    /\ mnode = "intent_analyzer"
    /\ msteps' = msteps + 1
    /\ \E out \in {"answer", "rate_limit", "raise"},
          answer \in {"PASSED_HINT", "PASSED_SUBMIT", "FAILED_GUARDRAIL"},
          is_submission_request \in BOOLEAN :
        IF out = "raise"
        THEN /\ mnode' = "Exception"
             /\ UNCHANGED <<mstate, routed>>
        ELSE LET st == IF out = "rate_limit"
                       THEN [mstate EXCEPT !.intent_status = "FAILED_RATE_LIMIT"]
                       ELSE [mstate EXCEPT !.intent_status = answer,
                                           !.is_submitted = is_submission_request]
             IN  /\ mstate' = st
                 /\ routed' = [router |-> "intent_router", name |-> intent_router(st)]
                 /\ mnode' = Follow(IntentEdges, intent_router(st))
    /\ UNCHANGED submitReq
    /\ UNCHANGED notGraph

\* writer_llm and writer_router
GraphWriter ==
    /\ Running
    /\ mnode = "writer"
    /\ msteps' = msteps + 1
    /\ \E outcome \in {"SUCCESS", "FAILED_RATE_LIMIT", "FAILED_THRESHOLD",
                      "FAILED_TECHNICAL"} :
        LET st == [mstate EXCEPT !.writer_status = outcome]
        IN  /\ mstate' = st
            /\ routed' = [router |-> "writer_router", name |-> writer_router(st)]
            /\ mnode' = Follow(WriterEdges, writer_router(st))
    /\ UNCHANGED submitReq
    /\ UNCHANGED notGraph

\* any other node: summarize_memory and the evaluation nodes go on along
\* their edge, eval_turn and handle_failure along main_router;
\* aggregate_final_scores sets final_scores
OtherNode ==
    /\ Running
    /\ mnode \notin {"handle_request", "intent_analyzer", "writer"}
    /\ msteps' = msteps + 1
    /\ IF mnode \in DOMAIN FixedEdges
       THEN /\ mnode' = FixedEdges[mnode]
            /\ mstate' = IF mnode = "aggregate_final_scores"
                         THEN [mstate EXCEPT !.final_scores = TRUE] ELSE mstate
            /\ UNCHANGED routed
       ELSE /\ routed' = [router |-> "main_router", name |-> main_router(mstate)]
            /\ mnode' = Follow(MainEdges, main_router(mstate))
            /\ UNCHANGED mstate
    /\ UNCHANGED submitReq
    /\ UNCHANGED notGraph

\* the run has made MaxSteps node executions without reaching END
RecursionLimit ==
    /\ mnode \notin Stopped
    /\ msteps = MaxSteps
    /\ mnode' = "GraphRecursionError"
    /\ UNCHANGED <<mstate, msteps, routed, submitReq>>
    /\ UNCHANGED notGraph

NextGraph ==
    \/ HandleRequestNode
    \/ IntentNode
    \/ GraphWriter
    \/ OtherNode
    \/ RecursionLimit

\* writer_router and the conditional edge of the writer, on the state drawn
ApplyWriterRouter ==
    /\ routed.router = "none"
    /\ routed' = [router |-> "writer_router", name |-> writer_router(mstate)]
    /\ mnode' = Follow(WriterEdges, writer_router(mstate))
    /\ UNCHANGED <<mstate, msteps, submitReq>>
    /\ UNCHANGED notGraph

\* summarize_memory -> handle_request
ApplyFixedEdge ==
    /\ mnode \in DOMAIN FixedEdges
    /\ mnode' = FixedEdges[mnode]
    /\ UNCHANGED <<mstate, msteps, routed, submitReq>>
    /\ UNCHANGED notGraph

NextRouter ==
    \/ ApplyWriterRouter
    \/ ApplyFixedEdge

(***************************************************************************)
(* The code evaluation at the end of a submission: eval_code_correctness   *)
(* waits for the sandbox through the queue and falls back to an LLM        *)
(* judgement, aggregate_final_scores weighs the scores and grades them.    *)
(* A score is held in thousandths of a point; None is the empty sequence.  *)
(* The sums and the mean are exact in 1/8000 of a point.                   *)
(***************************************************************************)
\* polls of the queue that fit into max_wait (60 s at poll_interval 0.5 s)
MaxPolls == 2
\* number of test cases of the problem
TestCasesTotal == 2

Milli(points) == points * 1000

Fine(milli) == 8 * milli

\* what the earlier evaluators leave in the state: overall_flow_score as the
\* LLM gave it, the other scores rounded to two decimals
FlowScores == {0, 89970, 90000}
TurnScores == {0, 90000}
PerformanceScores == {0, 90000, 100000}
\* the rubric values of CodeQualityEvaluation the LLM judge answers with
RubricValues == {0, 100}

Optional(S) == {<<>>} \cup {<<x>> : x \in S}

\* round(x, 2) of a value in 1/8000 of a point, in hundredths; a value half
\* way between two hundredths goes the way its binary representation lies
round2(x, up) ==
    LET q == x \div 80
        r == x % 80
    IN  IF r > 40 \/ (r = 40 /\ up) THEN q + 1 ELSE q

\* correctness * 0.7 + efficiency * 0.2 + best_practices * 0.1, rounded
llm_correctness_score(correctness, efficiency, best_practices) ==
    10 * round2((Fine(Milli(correctness)) * 7 + Fine(Milli(efficiency)) * 2
                 + Fine(Milli(best_practices))) \div 10, FALSE)

prompt_score_sum(holistic_flow_score, aggregate_turn_score) ==
    LET prompt_scores == holistic_flow_score \o aggregate_turn_score
    IN  IF Len(prompt_scores) = 0 THEN 0
        ELSE IF Len(prompt_scores) = 1 THEN Fine(prompt_scores[1])
        ELSE Fine(prompt_scores[1]) + Fine(prompt_scores[2])

\* sum(prompt_scores) / len(prompt_scores) if prompt_scores else 0
prompt_score(holistic_flow_score, aggregate_turn_score) ==
    LET prompt_scores == holistic_flow_score \o aggregate_turn_score
    IN  IF Len(prompt_scores) = 0 THEN 0
        ELSE IF Len(prompt_scores) = 1 THEN Fine(prompt_scores[1])
        ELSE (Fine(prompt_scores[1]) + Fine(prompt_scores[2])) \div 2

\* score if score is not None else 0
OrZero(score) == IF score = <<>> THEN 0 ELSE Fine(score[1])

\* prompt * 0.25 + performance * 0.25 + correctness * 0.50
total_score(st) ==
    (prompt_score(st.holistic_flow_score, st.aggregate_turn_score) * 25
     + OrZero(st.code_performance_score) * 25
     + OrZero(st.code_correctness_score) * 50) \div 100

\* the grade is taken from the total before it is rounded
grade(total) ==
    IF total >= Fine(Milli(90)) THEN "A"
    ELSE IF total >= Fine(Milli(80)) THEN "B"
    ELSE IF total >= Fine(Milli(70)) THEN "C"
    ELSE IF total >= Fine(Milli(60)) THEN "D"
    ELSE "F"

\* the final_scores dict, its scores in hundredths of a point
aggregate_final_scores(st, ups) ==
    [prompt_score |->
        round2(prompt_score(st.holistic_flow_score, st.aggregate_turn_score), ups[1]),
     performance_score |-> round2(OrZero(st.code_performance_score), ups[2]),
     correctness_score |-> round2(OrZero(st.code_correctness_score), ups[3]),
     total_score |-> round2(total_score(st), ups[4]),
     grade |-> grade(total_score(st))]

NoJudge == [polls |-> 0, path |-> "none", keys |-> {}, verdict |-> FALSE]

\* passed_count == total_count gives "success", else "error"
ExecuteStatus(passed_count, total_count) ==
    IF passed_count = total_count THEN "success" ELSE "error"

EvalIdle(code, cases, passes, flow, turn, perf) ==
    /\ evnode = "eval_code_correctness"
    /\ evstate = [code_content |-> code, test_cases |-> cases, passes |-> passes,
                  holistic_flow_score |-> flow, aggregate_turn_score |-> turn,
                  code_performance_score |-> perf, code_correctness_score |-> <<>>,
                  final_scores |-> <<>>]
    /\ judge = NoJudge

EvalRest == EvalIdle(FALSE, FALSE, 0, <<>>, <<>>, <<>>)

\* the state that reaches eval_code_correctness; without code the
\* performance evaluator has returned None.  passes is the number of the
\* problem's test cases the submitted code passes in the sandbox
InitEval ==
    \E code \in BOOLEAN, cases \in BOOLEAN, passes \in 0..TestCasesTotal,
       flow \in Optional(FlowScores),
       turn \in Optional(TurnScores), perf \in Optional(PerformanceScores) :
        /\ code \/ perf = <<>>
        /\ (code /\ cases) \/ passes = 0
        /\ EvalIdle(code, cases, passes, flow, turn, perf)

\* the node returns: its result is merged into the state
CorrectnessReturns(score, path, keys) ==
    /\ evstate' = [evstate EXCEPT !.code_correctness_score = score]
    /\ judge' = [judge EXCEPT !.path = path, !.keys = keys]
    /\ evnode' = "aggregate_final_scores"

\* eval_code_correctness up to the first poll: no code, the task enqueued,
\* or the queue raising
EnqueueJudge ==
    /\ evnode = "eval_code_correctness"
    /\ IF ~evstate.code_content
       THEN CorrectnessReturns(<<>>, "no_code", {"code_correctness_score", "updated_at"})
       ELSE \E raised \in BOOLEAN :
              /\ evnode' = IF raised THEN "llm_judge" ELSE "poll"
              /\ judge' = [judge EXCEPT !.path = IF raised THEN "fallback" ELSE "judge"]
              /\ UNCHANGED evstate
    /\ UNCHANGED notEval

\* one pass of the polling loop.  The worker has saved the result of the
\* test run (status completed when every case passed, failed otherwise:
\* "verdict"), or the result of a single run without test cases, or an
\* error result; or the task is not finished; or the queue raises
PollJudge ==
    /\ evnode = "poll"
    /\ judge.polls < MaxPolls
    /\ \E answer \in {"pending", "completed_none", "verdict", "success", "error",
                      "failed", "raise"} :
         /\ answer = "verdict" => evstate.test_cases
         /\ answer = "success" => ~evstate.test_cases
         /\ CASE answer = "verdict"
                   /\ ResultStatus(ExecuteStatus(evstate.passes, TestCasesTotal)) = "completed" ->
                   /\ evstate' = [evstate EXCEPT !.code_correctness_score = <<Milli(100)>>]
                   /\ judge' = [judge EXCEPT !.path = "judge", !.verdict = TRUE,
                                   !.keys = {"code_correctness_score", "test_cases_passed",
                                             "test_cases_total", "judge_task_id", "updated_at"}]
                   /\ evnode' = "aggregate_final_scores"
              [] answer = "verdict" ->
                   /\ evnode' = "llm_judge"
                   /\ judge' = [judge EXCEPT !.path = "fallback", !.verdict = TRUE]
                   /\ UNCHANGED evstate
              [] answer = "success" ->
                   CorrectnessReturns(<<Milli(50)>>, "judge",
                       {"code_correctness_score", "test_cases_passed", "test_cases_total",
                        "judge_task_id", "note", "updated_at"})
              [] answer \in {"error", "failed", "raise"} ->
                   /\ evnode' = "llm_judge"
                   /\ judge' = [judge EXCEPT !.path = "fallback"]
                   /\ UNCHANGED evstate
              [] OTHER ->
                   /\ judge' = [judge EXCEPT !.polls = @ + 1]
                   /\ UNCHANGED <<evnode, evstate>>
    /\ UNCHANGED notEval

\* max_wait has passed without a terminal status
PollTimeout ==
    /\ evnode = "poll"
    /\ judge.polls = MaxPolls
    /\ evnode' = "llm_judge"
    /\ judge' = [judge EXCEPT !.path = "fallback"]
    /\ UNCHANGED evstate
    /\ UNCHANGED notEval

\* the LLM judgement of the code, or its failure
LlmJudge ==
    /\ evnode = "llm_judge"
    /\ \/ \E c \in RubricValues, e \in RubricValues, b \in RubricValues :
            CorrectnessReturns(<<llm_correctness_score(c, e, b)>>, "fallback",
                {"code_correctness_score", "updated_at", "eval_tokens"})
       \/ CorrectnessReturns(<<>>, "fallback",
                {"code_correctness_score", "error_message", "updated_at"})
    /\ UNCHANGED notEval

AggregateFinalScores ==
    /\ evnode = "aggregate_final_scores"
    /\ \E ups \in [1..4 -> BOOLEAN] :
         evstate' = [evstate EXCEPT !.final_scores = <<aggregate_final_scores(evstate, ups)>>]
    /\ evnode' = "END"
    /\ UNCHANGED judge
    /\ UNCHANGED notEval

NextEval ==
    \/ EnqueueJudge
    \/ PollJudge
    \/ PollTimeout
    \/ LlmJudge
    \/ AggregateFinalScores

(***************************************************************************)
(* Several callers of dequeue on one queue (worker processes sharing the   *)
(* Redis list, or tasks sharing one MemoryQueueAdapter), next to the       *)
(* callers of enqueue.                                                     *)
(***************************************************************************)
\* number of concurrent callers of dequeue
NConsumers == 2

Consumers == 1..NConsumers

FifoIdle ==
    /\ consumers = [c \in Consumers |-> [pc |-> "idle", cur |-> None]]
    /\ dequeued = <<>>

Popped(c, t) == Append(dequeued, [task |-> t, by |-> c])

\* MemoryQueueAdapter.dequeue: popleft and status under the lock
MemDequeueBy(c) ==
    /\ adapter = "memory"
    /\ consumers[c].pc = "idle"
    /\ queue # <<>>
    /\ queue' = Tail(queue)
    /\ WriteStatus(Head(queue), "processing")
    /\ dequeued' = Popped(c, Head(queue))
    /\ UNCHANGED <<adapter, results, nextTask, prod, worker, taken, faults, consumers>>
    /\ UNCHANGED <<varsStore, varsRate, varsChain, varsSess, varsWs, varsGraph, varsEval>>

\* a BRPOP that takes the element pushed last
RedisPopNewestBy(c) ==
    /\ adapter = "redis"
    /\ consumers[c].pc = "idle"
    /\ queue # <<>>
    /\ queue' = SubSeq(queue, 1, Len(queue) - 1)
    /\ consumers' = [consumers EXCEPT ![c] = [pc |-> "dq_mark", cur |-> queue[Len(queue)]]]
    /\ dequeued' = Popped(c, queue[Len(queue)])
    /\ UNCHANGED <<adapter, status, results, nextTask, prod, worker, statusLog, taken, faults>>
    /\ UNCHANGED <<varsStore, varsRate, varsChain, varsSess, varsWs, varsGraph, varsEval>>

\* RedisQueueAdapter.dequeue, first command: BRPOP judge_queue:pending takes
\* the oldest element of the list LPUSH fills
RedisPopBy(c) ==
    /\ adapter = "redis"
    /\ consumers[c].pc = "idle"
    /\ queue # <<>>
    /\ queue' = Tail(queue)
    /\ consumers' = [consumers EXCEPT ![c] = [pc |-> "dq_mark", cur |-> Head(queue)]]
    /\ dequeued' = Popped(c, Head(queue))
    /\ UNCHANGED <<adapter, status, results, nextTask, prod, worker, statusLog, taken, faults>>
    /\ UNCHANGED <<varsStore, varsRate, varsChain, varsSess, varsWs, varsGraph, varsEval>>

\* RedisQueueAdapter.dequeue, second command: SET judge_status:<id>
\* processing, then the task is returned; or the command raises
RedisMarkBy(c) ==
    /\ consumers[c].pc = "dq_mark"
    /\ consumers' = [consumers EXCEPT ![c] = [pc |-> "idle", cur |-> None]]
    /\ \/ /\ WriteStatus(consumers[c].cur, "processing")
          /\ UNCHANGED faults
       \/ /\ CanFail
          /\ faults' = faults + 1
          /\ UNCHANGED <<status, statusLog>>
    /\ UNCHANGED <<adapter, queue, results, nextTask, prod, worker, taken, dequeued>>
    /\ UNCHANGED <<varsStore, varsRate, varsChain, varsSess, varsWs, varsGraph, varsEval>>

NextFifo ==
    \/ \E p \in Producers : MemEnqueue(p)
    \/ \E p \in Producers : RedisEnqueuePush(p)
    \/ \E p \in Producers : RedisEnqueueSetPending(p)
    \/ \E c \in Consumers : MemDequeueBy(c)
    \/ \E c \in Consumers : RedisPopBy(c)
    \/ \E c \in Consumers : RedisMarkBy(c)

(***************************************************************************)
(* Specifications                                                          *)
(***************************************************************************)
\* each specification starts the other parts idle and leaves them alone
InitStoreSpec ==
    InitStore /\ InitQueue("memory") /\ InitRate /\ ChainIdle(TestConfig) /\ SessIdle /\ WsIdle /\ GraphRest /\ EvalRest /\ FifoIdle

SpecStore == InitStoreSpec /\ [][NextStore]_vars

InitQueueSpec ==
    /\ \E a \in {"memory", "redis"} : InitQueue(a)
    /\ EmptyStore
    /\ InitRate
    /\ ChainIdle(TestConfig)
    /\ SessIdle /\ WsIdle /\ GraphRest /\ EvalRest /\ FifoIdle

SpecQueue == InitQueueSpec /\ [][NextQueue]_vars

InitRateSpec ==
    InitRate /\ EmptyStore /\ InitQueue("memory") /\ ChainIdle(TestConfig) /\ SessIdle /\ WsIdle /\ GraphRest /\ EvalRest /\ FifoIdle

SpecRate == InitRateSpec /\ [][NextRate]_vars

\* the event loop runs every ready coroutine and the clock advances
SpecRateFair ==
    /\ SpecRate
    /\ WF_vars(Tick)
    /\ \A c \in Callers : WF_vars(WakeAndInvoke(c)) /\ WF_vars(ChainReturns(c))

InitChainSpec == InitChain /\ EmptyStore /\ InitQueue("memory") /\ InitRate /\ SessIdle /\ WsIdle /\ GraphRest /\ EvalRest /\ FifoIdle

SpecChain == InitChainSpec /\ [][NextChain]_vars

InitSessSpec ==
    /\ SessIdle /\ GraphRest /\ EvalRest /\ FifoIdle
    /\ EmptyStore /\ InitQueue("memory") /\ InitRate /\ ChainIdle(TestConfig) /\ WsIdle

SpecSess == InitSessSpec /\ [][NextSess]_vars

InitGuardSpec ==
    /\ \E answered \in SUBSET (1..NGuardTurns) : GuardEntered(answered)
    /\ GraphRest /\ EvalRest /\ FifoIdle
    /\ EmptyStore /\ InitQueue("memory") /\ InitRate /\ ChainIdle(TestConfig) /\ WsIdle

SpecGuard == InitGuardSpec /\ [][NextGuard]_vars

InitWsSpec ==
    /\ WsIdle /\ GraphRest /\ EvalRest /\ FifoIdle
    /\ EmptyStore /\ InitQueue("memory") /\ InitRate /\ ChainIdle(TestConfig) /\ SessIdle

SpecWs == InitWsSpec /\ [][NextWs]_vars

IdleOthers ==
    /\ EmptyStore /\ InitQueue("memory") /\ InitRate /\ ChainIdle(TestConfig)
    /\ SessIdle /\ WsIdle

InitFifoSpec ==
    /\ \E a \in {"memory", "redis"} : InitQueue(a)
    /\ EmptyStore /\ InitRate /\ ChainIdle(TestConfig) /\ SessIdle /\ WsIdle
    /\ GraphRest /\ EvalRest /\ FifoIdle

SpecFifo == InitFifoSpec /\ [][NextFifo]_vars

InitEvalSpec == InitEval /\ IdleOthers /\ GraphRest /\ FifoIdle

SpecEval == InitEvalSpec /\ [][NextEval]_vars

InitGraphSpec == InitGraph /\ IdleOthers /\ EvalRest /\ FifoIdle

SpecGraph == InitGraphSpec /\ [][NextGraph]_vars

InitRouterSpec == InitRouter /\ IdleOthers /\ EvalRest /\ FifoIdle

SpecRouter == InitRouterSpec /\ [][NextRouter]_vars

(***************************************************************************)
(* Properties of the message store                                         *)
(***************************************************************************)
SessionMessages(sid) == {m \in dbMessages : m.sid = sid}

TurnsOf(sid) == {m.turn : m \in SessionMessages(sid)}

\* every message of the session got its turn from the INSERT .. SELECT
AllAuto(sid) == \A m \in SessionMessages(sid) : m.auto

DistinctTurns(sid) ==
    \A m1, m2 \in SessionMessages(sid) : m1.id # m2.id => m1.turn # m2.turn

\* C1: concurrent save_message(turn=None) calls on one session give every
\* stored message its own turn, the turns following max(turn) without a
\* duplicate or a gap: a session written only by such calls holds N messages
\* at the turns 1..N, one each.
C1_AtomicTurnAssignment ==
    \A sid \in SessionIds :
        AllAuto(sid) =>
            /\ DistinctTurns(sid)
            /\ TurnsOf(sid) = 1..Cardinality(SessionMessages(sid))

HasRow(role, req) == \E m \in dbMessages : m.role = role /\ m.req = req

\* C6: a success response of send_message that carries an ai_message is
\* returned only after the USER message and the AI message of that request
\* are committed.
C6_ResponseAfterDurableWrites ==
    \A c \in Clients :
        (cl[c].resp.ok /\ cl[c].resp.ai) =>
            HasRow("USER", cl[c].resp.req) /\ HasRow("AI", cl[c].resp.req)

\* C7: every message in a cached session state is already committed in the
\* durable store.
C7_CacheAfterDurable ==
    \A sid \in SessionIds : \A e \in cache[sid] : HasRow(e.role, e.req)

\* C8: no two committed messages of one session share (turn, role).
C8_UniqueTurnRole ==
    \A m1, m2 \in dbMessages :
        (m1.id # m2.id /\ m1.sid = m2.sid) =>
            ~(m1.turn = m2.turn /\ m1.role = m2.role)

\* C11: save_message with an explicit (session, turn, role) that already
\* exists is a no-op: the step that finds the existing row inserts nothing,
\* leaves the durable store and the cache as they are, and returns success
\* with the id of an existing message.
C11_DuplicateIsNoOp ==
    [][\A c \in Clients :
        (cl[c].pc = "sm_check" /\ ExistingMessages(c) # {} /\ cl'[c] # cl[c]) =>
            /\ dbMessages' = dbMessages
            /\ dbSessions' = dbSessions
            /\ cache' = cache
            /\ cl'[c].resp.ok
            /\ cl'[c].resp.msg \in {m.id : m \in ExistingMessages(c)}]_vars

\* C9: at most one open session (ended_at IS NULL) exists for the
\* (exam_id, participant_id) pair.
C9_OneOpenSession ==
    Cardinality({s \in dbSessions : ~s.ended}) <= 1

\* turn values do not decrease in creation order (the order of the ids)
NonDecreasing(sid) ==
    \A m1, m2 \in SessionMessages(sid) : m1.id < m2.id => m1.turn <= m2.turn

\* the turns present are 1..N for some N
Contiguous(sid) ==
    TurnsOf(sid) = {} \/ TurnsOf(sid) = 1..SetMax(TurnsOf(sid))

AllowedLog(l) ==
    /\ Len(l) <= 3
    /\ Len(l) >= 1 => l[1] = "pending"
    /\ Len(l) >= 2 => l[2] = "processing"
    /\ Len(l) >= 3 => l[3] \in Terminal

C3_ErrorResultWritten ==
    worker.pc \in {"dequeue", "stopped"} =>
        \A t \in taken : results[t] # "none"

(***************************************************************************)
(* Properties of the rate limiter                                          *)
(***************************************************************************)
\* C4: every call through the rate-limited wrapper, delayed or not, invokes
\* the wrapped chain exactly once and returns: none is dropped.
C4_NoCallDropped ==
    \A c \in Callers :
        (callers[c].pc \in {"sleeping", "invoking"}) ~>
            (callers[c].pc = "returned" /\ callers[c].calls = 1)

\* a call over the limit slept, invoked the chain once and returned
C4_Witness ==
    \E c \in Callers :
        callers[c].pc = "returned" /\ callers[c].slept /\ callers[c].calls = 1

\* the number of invocations of the chain for key k that start in (t - period, t]
StartedInWindow(k, t) ==
    Cardinality({i \in DOMAIN invocations[k] :
                    t - period < invocations[k][i] /\ invocations[k][i] <= t})

\* C5: for each key at most max_calls invocations of the wrapped chain start
\* within any window of period seconds.
C5_WindowLimit ==
    \A k \in Keys : \A t \in 0..MaxTime : StartedInWindow(k, t) <= max_calls

(***************************************************************************)
(* Properties of the middleware and the Writer                             *)
(***************************************************************************)
\* the texts that, whatever their case, contain rate, quota or timeout
TransientMessages == {msgRateLimit, msgQuota, msgTimeout, msgTokenRate}

\* the exception's class is one of the configured retry classes or derives
\* from one
MatchesConfigured(e) ==
    \E k \in RetryExceptions : k = e.cls \/ k = "Exception"

\* retryable as the claims word it: by class or by the text
ClaimRetryable(e) == MatchesConfigured(e) \/ e.msg \in TransientMessages

\* retryable under the configuration: a retry_condition decides alone
RetryableHere(e) ==
    IF rcfg.retry_condition = "none" THEN ClaimRetryable(e)
    ELSE rcfg.retry_condition = "always"

\* C12: when every attempt failed with a retryable exception, the retry
\* wrapper has invoked the wrapped chain exactly max_retries + 1 times when
\* it raises, and what it raises is the exception of the last attempt.
C12_ExhaustedReraisesLast ==
    (rst.pc = "raised" /\ \A i \in DOMAIN rst.fails : RetryableHere(rst.fails[i])) =>
        /\ rst.calls = rcfg.max_retries + 1
        /\ Len(rst.fails) = rst.calls
        /\ rst.out = rst.fails[Len(rst.fails)]

\* three attempts of a max_retries = 2 wrapper failed and the last exception
\* was raised
C12_Witness ==
    /\ rst.pc = "raised"
    /\ rcfg.max_retries = 2
    /\ rst.calls = 3
    /\ \A i \in DOMAIN rst.fails : RetryableHere(rst.fails[i])

\* an attempt has just failed while retries remain
FailedWithRetriesLeft ==
    /\ rst.pc \in {"sleeping", "raised"}
    /\ rst.last.kind = "exc"
    /\ rst.attempt < rcfg.max_retries

C14_LoggingTransparent == logOut = baseOut

\* the wrapped chain raised and the wrapper raised that exception
C14_Witness == baseOut.kind = "exc" /\ logOut.kind = "exc"

\* the writer_status the claim gives each text: rate or quota first, then
\* context or token, otherwise technical
ExpectedStatus(m) ==
    CASE m \in {msgRateLimit, msgQuota, msgTokenRate} -> "FAILED_RATE_LIMIT"
      [] m \in {msgContext, msgTokens} -> "FAILED_THRESHOLD"
      [] OTHER -> "FAILED_TECHNICAL"

\* C15: the Writer never raises; for an exception of the generation it
\* returns ai_message None and the writer_status that belongs to the text.
C15_WriterClassifies ==
    wst.pc = "done" =>
        /\ ~wst.res.raised
        /\ rst.out.kind = "exc" =>
              /\ wst.res.ai = "none"
              /\ wst.res.status = ExpectedStatus(rst.out.msg)

\* the Writer returned FAILED_THRESHOLD for an exception about tokens
C15_Witness ==
    /\ wst.pc = "done"
    /\ rst.out.msg = msgTokens
    /\ wst.res.status = "FAILED_THRESHOLD"

\* C18: the cached state of a session has one writer at a time: no write
\* replaces a later state by one computed from an older snapshot.  Every
\* writer stores the snapshot it read plus its own message, so a stale
\* snapshot shows as a message of the cached state that a write removes
C18_NoLostUpdate ==
    [][\A s \in SessionIds : cache[s] \subseteq cache'[s]]_vars

(***************************************************************************)
(* Properties of the session state and of the turn evaluations             *)
(***************************************************************************)
\* the turns that have an entry in turn_scores, under either key format, in
\* the state the submission works on or in the state Redis holds
TurnsWithEntry ==
    {e.turn : e \in preq.state.turn_scores \cup preq.state.guard_scores
                      \cup graphState.turn_scores}

\* C16: when eval_turn_submit_guard has finished on a submission whose
\* current_turn is n, and holistic evaluation is about to start, every prior
\* turn 1..n-1 has a turn_scores entry
C16_EveryPriorTurnScored ==
    preq.pc = "holistic" => \A t \in 1..(guard.n - 1) : t \in TurnsWithEntry

\* C17: every evaluation of a turn whose message the guardrail blocked gives
\* turn_score 0, on the chat-time path and on the guard path alike
C17_GuardrailScoresZero ==
    \A e \in evaluated : e.turn \in blocked => e.score = 0

\* C19: from one write of the session's state to the next, chat_tokens.total
\* and eval_tokens.total never decrease
C19_TokensNeverDecrease ==
    [][/\ graphState'.chat_tokens >= graphState.chat_tokens
       /\ graphState'.eval_tokens >= graphState.eval_tokens]_vars

(***************************************************************************)
(* Properties of the WebSocket stream                                      *)
(***************************************************************************)
\* C20: once the cancel of a turn that is streaming (sent after its first
\* delta) has reached the server, no further delta is sent for that turn_id
C20_NoDeltaAfterCancel ==
    [][\A t \in cancelledMid : Frames("delta", t)' = Frames("delta", t)]_vars

(***************************************************************************)
(* Properties of the main graph                                            *)
(***************************************************************************)
\* the keys of the path map the router is attached with
DeclaredNames(router) ==
    CASE router = "intent_router" -> DOMAIN IntentEdges
      [] router = "writer_router" -> DOMAIN WriterEdges
      [] OTHER -> DOMAIN MainEdges

\* C26: every name a conditional router of the main graph returns in a
\* reachable state is a declared destination of its conditional edge
C26_RouterNamesDeclared ==
    routed.router # "none" => routed.name \in DeclaredNames(routed.router)

\* the routing table after the Writer
TableAfterWriter(st) ==
    CASE st.writer_status = "SUCCESS" /\ ~st.is_submitted -> {"END"}
      [] st.writer_status = "FAILED_RATE_LIMIT" /\ st.retry_count < 3 -> {"handle_request"}
      [] st.writer_status = "FAILED_RATE_LIMIT" /\ st.retry_count >= 3 -> {"handle_failure"}
      [] st.writer_status = "FAILED_THRESHOLD" -> {"summarize_memory"}
      [] st.writer_status \in {"FAILED_TECHNICAL", "FAILED_GUARDRAIL", "FAILED_WRITING"} ->
            {"handle_failure"}
      [] OTHER -> {"END", "eval_turn", "handle_failure", "summarize_memory",
                   "handle_request", "KeyError"}

\* C27: after the Writer the next node is the one the routing table names,
\* and memory summarization re-enters the request handler
C27_WriterRoutingTable ==
    [][/\ routed'.router = "writer_router" /\ routed.router = "none" =>
            mnode' \in TableAfterWriter(mstate')
       /\ mnode = "summarize_memory" => mnode' = "handle_request"]_vars

C27_Witness ==
    /\ routed.router = "writer_router"
    /\ mstate.writer_status = "FAILED_RATE_LIMIT"
    /\ mstate.retry_count >= 3
    /\ mnode = "handle_failure"

\* C29: no invocation of the main graph runs on until the step limit stops
\* it: the loops through handle_request are bounded and the run reaches END
C29_LoopsBounded == mnode # "GraphRecursionError"

\* C30: a run started by submit_code keeps is_submitted true, does not
\* raise, and has final_scores set when it ends
C30_SubmitKeepsFlag ==
    submitReq =>
        /\ mstate.is_submitted
        /\ mnode \notin {"KeyError", "Exception", "GraphRecursionError"}
        /\ mnode = "END" => mstate.final_scores

(***************************************************************************)
(* Properties of the code evaluation                                       *)
(***************************************************************************)
Reported == evstate.final_scores[1]

Distance(a, b) == IF a >= b THEN a - b ELSE b - a

\* C21: when the polling cap passes without a terminal result, or the
\* sandbox task fails, the correctness node leaves an LLM-judged score whose
\* result carries a skip_reason, and a total_score is still computed
C21_FallbackMarked ==
    /\ (judge.path = "fallback" /\ evnode \in {"aggregate_final_scores", "END"}) =>
          /\ evstate.code_correctness_score # <<>>
          /\ "skip_reason" \in judge.keys
    /\ (judge.path = "fallback" /\ evnode = "END") => evstate.final_scores # <<>>

\* the mean of the non-null members of {holistic_flow_score, aggregate_turn_score},
\* doubled, in thousandths; 0 when both are null
TwiceMeanNonNull(st) ==
    IF st.holistic_flow_score # <<>> /\ st.aggregate_turn_score # <<>>
    THEN st.holistic_flow_score[1] + st.aggregate_turn_score[1]
    ELSE IF st.holistic_flow_score # <<>> THEN 2 * st.holistic_flow_score[1]
    ELSE IF st.aggregate_turn_score # <<>> THEN 2 * st.aggregate_turn_score[1]
    ELSE 0

\* C22: the reported total_score is within 0.01 of 0.25 * prompt_score +
\* 0.25 * performance_score + 0.50 * correctness_score of the reported
\* sub-scores, and the reported prompt_score is the mean of the non-null
\* members of {holistic_flow_score, aggregate_turn_score} to two decimals
C22_TotalIsWeightedSum ==
    evstate.final_scores # <<>> =>
        /\ Distance(4 * Reported.total_score,
                    Reported.prompt_score + Reported.performance_score
                    + 2 * Reported.correctness_score) <= 4
        /\ Distance(20 * Reported.prompt_score, TwiceMeanNonNull(evstate)) <= 10

\* final scores of a run with both prompt scores, unequal, and code scores
C22_Witness ==
    /\ evnode = "END"
    /\ evstate.final_scores # <<>>
    /\ evstate.holistic_flow_score # <<>>
    /\ evstate.aggregate_turn_score # <<>>
    /\ evstate.holistic_flow_score # evstate.aggregate_turn_score
    /\ evstate.code_performance_score # <<>>
    /\ evstate.code_correctness_score # <<>>
    /\ Reported.total_score > 0

\* the banded table, on a score in hundredths of a point
BandOf(hundredths) ==
    IF hundredths >= 9000 THEN "A"
    ELSE IF hundredths >= 8000 THEN "B"
    ELSE IF hundredths >= 7000 THEN "C"
    ELSE IF hundredths >= 6000 THEN "D"
    ELSE "F"

\* C23: the reported grade is the band of the reported total_score: A from
\* 90, B from 80, C from 70, D from 60, otherwise F
C23_GradeMatchesTable ==
    evstate.final_scores # <<>> => Reported.grade = BandOf(Reported.total_score)

(***************************************************************************)
(* Properties of the turn pairs of send_message                            *)
(***************************************************************************)
\* the AI row and the USER row written by one send_message request
ChatPairs ==
    {p \in dbMessages \X dbMessages :
        /\ p[1].role = "USER" /\ p[2].role = "AI"
        /\ p[1].req = p[2].req /\ p[1].req # 0
        /\ p[1].auto /\ p[2].auto}

\* C25: in every session the AI message of a request is at the turn after
\* the USER message it answers and directly follows it in insertion order,
\* also when two requests on the session are in flight at once
C25_AlternatingTurns ==
    \A p \in ChatPairs :
        /\ p[2].sid = p[1].sid
        /\ p[2].turn = p[1].turn + 1
        /\ ~\E x \in dbMessages :
              x.sid = p[1].sid /\ p[1].id < x.id /\ x.id < p[2].id

(***************************************************************************)
(* Further properties of the judge queue                                   *)
(***************************************************************************)
\* C36: once save_result has stored a task's result and final status, no
\* step of the worker changes either of them: an exception of a later round
\* is not recorded against the earlier task
C36_SavedResultKept ==
    [][\A t \in Tasks :
          (status[t] \in Terminal /\ results[t] # "none" /\ prod' = prod) =>
              (results'[t] = results[t] /\ status'[t] = status[t])]_vars

\* C37: the worker loop is never left while the worker is started, whatever
\* an iteration raises, a failing dequeue of the first iteration included
C37_WorkerKeepsRunning == worker.running /\ worker.pc # "stopped"

\* C38: with the Redis adapter the status a worker has set to processing is
\* never set back to pending by the enqueue that published the task
C38_PendingBeforeVisible ==
    [][\A t \in Tasks :
          (adapter = "redis" /\ status[t] \in {"processing"} \cup Terminal) =>
              status'[t] # "pending"]_vars

StrictlyIncreasing(tasks) ==
    \A i, j \in 1..Len(tasks) : i < j => tasks[i] < tasks[j]

\* the tasks in the order they left the queue, then those still in it
LeftThenQueued == [i \in 1..Len(dequeued) |-> dequeued[i].task] \o queue

C35_OneTurnPerRequest ==
    /\ mstate.current_turn <= 1
    /\ mnode = "END" => mstate.current_turn = 1

\* C33: when the sandbox has returned the result of the test run,
\* code_correctness_score is 100 * passed / total over the problem's test
\* cases, or the binary 0 / 100 of a result without per-case detail
C33_ScoreIsPassRate ==
    (judge.verdict /\ evnode \in {"aggregate_final_scores", "END"}) =>
        \/ evstate.code_correctness_score =
              <<(Milli(100) * evstate.passes) \div TestCasesTotal>>
        \/ evstate.code_correctness_score =
              <<IF evstate.passes = TestCasesTotal THEN Milli(100) ELSE 0>>

\* C31: when the guard has returned, every turn whose evaluation failed has
\* a TurnLog with score 0, every qualifying turn has been evaluated and the
\* holistic evaluation is the next node
GuardEvaluatedAll ==
    {r.turn : r \in guard.results} = TurnsToEvaluate(preq.state)

C31_FailedTurnHasLog ==
    (guard.pc = "done" /\ preq.pc = "holistic") =>
        /\ GuardEvaluatedAll
        /\ \A t \in guard.failed : [turn |-> t, score |-> 0] \in guard.turn_logs

\* the other turns are evaluated and the holistic evaluation is reached
\* although a turn failed
FailureDoesNotBlock ==
    (guard.pc = "done" /\ preq.pc = "holistic") =>
        /\ GuardEvaluatedAll
        /\ \A t \in guard.failed : [turn |-> t, score |-> 0] \in guard.results

\* C32: during the guard never more than 5 per-turn evaluations are in
\* progress at once
C32_AtMostFiveRunning == Cardinality(guard.running) <= 5

\* five evaluations are in progress while further turns wait
C32_Witness ==
    /\ guard.pc = "gather"
    /\ Cardinality(guard.running) = 5
    /\ guard.turns_to_evaluate # {}

\* the turns some path has evaluated, and the scores recorded for a turn
EvaluatedTurns == {e.turn : e \in evaluated}

ScoresOf(t) == {e.score : e \in {x \in evaluated : x.turn = t}}

\* one score for every evaluated turn
OneScorePerTurn ==
    {pick \in [EvaluatedTurns -> {e.score : e \in evaluated}] :
        \A t \in EvaluatedTurns : pick[t] \in ScoresOf(t)}

\* C34: the aggregate_turn_score that aggregate_turn_scores computes for a
\* submission is the mean of the turn_score values over the turns evaluated
\* by then, one score for each evaluated turn whatever path recorded it
C34_MeanOverEvaluatedTurns ==
    [][(preq.pc = "holistic" /\ preq'.pc = "save") =>
        IF EvaluatedTurns = {} THEN preq'.state.aggregate_turn_score = <<>>
        ELSE \E pick \in OneScorePerTurn, up \in BOOLEAN :
                preq'.state.aggregate_turn_score =
                    <<mean_round2(
                        SumOfScores({<<"turn", [turn |-> t, score |-> pick[t]]>> :
                                        t \in EvaluatedTurns}),
                        Cardinality(EvaluatedTurns), up)>>]_vars
====
